---- MODULE Spec2Model ----
(***************************************************************************)
(* Gen AI ROI & TCO calculator (streamlit_app.py): the Cost Analysis tab,  *)
(* the ROI Calculator tab (benefits, ROI, payback scan, sensitivity        *)
(* analysis) and the session state they write; the scenarios of           *)
(* save_load_manager.py with their JSON export and import; the cost input  *)
(* validation of input_validation.py.                                      *)
(*                                                                         *)
(* One script run recomputes everything from the widget values, top to     *)
(* bottom; a widget change triggers one run.                               *)
(*                                                                         *)
(* Numbers.  Python floats are modelled as exact rationals <<n, d>> in     *)
(* lowest terms with d > 0; IEEE rounding is not modelled.  A dynamically  *)
(* typed Python value that is an int or a str is a tagged record (PyInt,   *)
(* PyStr).                                                                 *)
(***************************************************************************)
EXTENDS Integers, Sequences, FiniteSets, TLC

(***************************************************************************)
(* Bounds of the exploration                                               *)
(***************************************************************************)
\* at most this many widgets differ from their StartWidgets value
MaxChanged == 2
\* an amount widget takes 0 .. MaxUnits times its step
MaxUnits == 2

\* the auto-saves of a session stop at a name of MaxAutoSaves prefixes
MaxAutoSaves == 3

(***************************************************************************)
(* Exact rational arithmetic standing for Python float arithmetic          *)
(***************************************************************************)
Abs(i) == IF i < 0 THEN -i ELSE i

RECURSIVE GCD(_, _)
GCD(a, b) == IF b = 0 THEN a ELSE GCD(b, a % b)

Norm(n, d) ==
    LET g == GCD(Abs(n), Abs(d))
        s == IF d < 0 THEN -1 ELSE 1
    IN  <<s * (n \div g), s * (d \div g)>>

R(i) == <<i, 1>>

RZero == R(0)

RAdd(x, y) ==
    LET g == GCD(x[2], y[2])
    IN  Norm(x[1] * (y[2] \div g) + y[1] * (x[2] \div g), (x[2] \div g) * y[2])

RNeg(x) == <<-x[1], x[2]>>

RSub(x, y) == RAdd(x, RNeg(y))

RMul(x, y) ==
    LET g1 == GCD(Abs(x[1]), y[2])
        g2 == GCD(Abs(y[1]), x[2])
    IN  Norm((x[1] \div g1) * (y[1] \div g2), (x[2] \div g2) * (y[2] \div g1))

\* defined for y # 0 only; Python raises ZeroDivisionError otherwise
RDiv(x, y) == RMul(x, Norm(y[2], y[1]))

\* x <= y, x < y, decided on whole parts first
RLeq(x, y) ==
    LET qx == x[1] \div x[2]
        qy == y[1] \div y[2]
    IN  IF qx # qy THEN qx < qy
        ELSE (x[1] % x[2]) * y[2] <= (y[1] % y[2]) * x[2]

RGeq(x, y) == RLeq(y, x)

RLt(x, y) == ~RLeq(y, x)

RGt(x, y) == ~RLeq(x, y)

\* a Python value of type int, of type str
PyInt(i) == [type |-> "int", int |-> i, str |-> ""]

PyStr(s) == [type |-> "str", int |-> 0, str |-> s]

(***************************************************************************)
(* Widgets.  w is the record of the current widget values: int widgets     *)
(* hold integers, float widgets (step 0.5) hold rationals.                 *)
(***************************************************************************)
\* the widget values the exploration starts from: the amounts are zero, the
\* sliders and the unit costs have a value of their range
StartWidgets ==
    [org_name |-> "", industry |-> "Technology", use_case |-> "Customer Service/Chatbots",
     avg_tokens_per_request |-> 2000, requests_per_day |-> 1000,
     cost_per_million_tokens |-> R(0), growth_rate |-> 50, embedding_cost |-> 0,
     compute_cost |-> 0, storage_cost |-> 0, networking_cost |-> 0,
     security_tools |-> 0, monitoring_tools |-> 0, backup_dr |-> 0,
     ai_engineers |-> R(0), ai_engineer_cost |-> 32000,
     backend_devs |-> R(0), backend_cost |-> 150000,
     frontend_devs |-> R(0), frontend_cost |-> 130000,
     qa_engineers |-> R(0), qa_cost |-> 120000, dev_tools |-> 0,
     data_engineers |-> R(0), data_engineer_cost |-> 160000, data_prep_cost |-> 0,
     data_quality_tools |-> 0, data_labeling |-> 0,
     ops_engineers |-> R(0), ops_cost |-> 170000,
     support_staff |-> R(0), support_cost |-> 100000,
     incident_mgmt |-> 0, model_retraining |-> 0,
     training_cost |-> 0, change_mgmt |-> 0, governance_cost |-> 0, legal_cost |-> 0,
     contingency_pct |-> 15,
     time_saved_per_user |-> R(0), hourly_rate |-> 75, affected_users |-> 2,
     productivity_pct |-> 70,
     customer_service_reduction |-> 0, process_automation_value |-> 0,
     error_reduction_value |-> 0, cost_reduction_confidence |-> 60,
     new_revenue |-> 0, customer_retention |-> 0, revenue_confidence |-> 50,
     competitive_advantage |-> 0, innovation_value |-> 0, strategic_confidence |-> 50]

\* st.number_input with an int value: 0, step, 2*step, ...
Amounts(step) == {k * step : k \in 0..MaxUnits}

\* st.number_input with a float value, in halves
HalfAmounts(step) == {Norm(k * step, 2) : k \in 0..MaxUnits}

\* st.slider(min_value=0, max_value=max)
SliderValues(step, max) == {v \in Amounts(step) : v <= max}

\* the values each widget is moved through; the others keep their
\* StartWidgets value
Varied ==
    [cost_per_million_tokens |-> HalfAmounts(16),
     growth_rate |-> SliderValues(50, 200),
     embedding_cost |-> Amounts(500),
     compute_cost |-> Amounts(2000),
     ai_engineers |-> HalfAmounts(1),
     data_prep_cost |-> Amounts(10000),
     incident_mgmt |-> Amounts(12500),
     training_cost |-> Amounts(10000),
     contingency_pct |-> SliderValues(15, 50),
     time_saved_per_user |-> HalfAmounts(10),
     productivity_pct |-> SliderValues(35, 100),
     customer_service_reduction |-> Amounts(10000),
     cost_reduction_confidence |-> SliderValues(30, 100),
     new_revenue |-> Amounts(10000),
     revenue_confidence |-> SliderValues(50, 100),
     competitive_advantage |-> Amounts(10000),
     strategic_confidence |-> SliderValues(50, 100)]

(***************************************************************************)
(* Cost Analysis tab.  Each yearN_x takes the values the source line reads. *)
(***************************************************************************)
\* 1 + growth_rate/100
GrowthFactor(growth_rate) == RAdd(R(1), RDiv(R(growth_rate), R(100)))

annual_requests(w) == w.requests_per_day * 365

total_tokens(w) == annual_requests(w) * w.avg_tokens_per_request

year1_api_cost(w) == RMul(RDiv(R(total_tokens(w)), R(1000000)), w.cost_per_million_tokens)

year2_api_cost(year1, growth_rate) == RMul(year1, GrowthFactor(growth_rate))

year3_api_cost(year2, growth_rate) == RMul(year2, GrowthFactor(growth_rate))

year1_embedding(w) == R(w.embedding_cost * 12)

year2_embedding(year1, growth_rate) == RMul(year1, GrowthFactor(growth_rate))

year3_embedding(year2, growth_rate) == RMul(year2, GrowthFactor(growth_rate))

monthly_infra(w) ==
    w.compute_cost + w.storage_cost + w.networking_cost + w.security_tools
        + w.monitoring_tools + w.backup_dr

year1_infra(w) == R(monthly_infra(w) * 12)

year2_infra(year1) == RMul(year1, <<115, 100>>)

\* mutant: the development rate pasted into the infrastructure line
year3_infra_devrate(year2) == RMul(year2, <<105, 100>>)

year3_infra(year2) == RMul(year2, <<115, 100>>)

year1_dev(w) ==
    RAdd(RAdd(RAdd(RAdd(RMul(w.ai_engineers, R(w.ai_engineer_cost)),
                        RMul(w.backend_devs, R(w.backend_cost))),
                   RMul(w.frontend_devs, R(w.frontend_cost))),
              RMul(w.qa_engineers, R(w.qa_cost))),
         R(w.dev_tools))

year2_dev(year1) == RMul(year1, <<105, 100>>)

year3_dev(year2) == RMul(year2, <<105, 100>>)

year1_data(w) ==
    RAdd(RAdd(RAdd(RMul(w.data_engineers, R(w.data_engineer_cost)), R(w.data_prep_cost)),
              R(w.data_quality_tools)),
         R(w.data_labeling))

year2_data(year1) == RMul(year1, <<11, 10>>)

year3_data(year2) == RMul(year2, <<11, 10>>)

year1_ops(w) ==
    RAdd(RAdd(RAdd(RMul(w.ops_engineers, R(w.ops_cost)),
                   RMul(w.support_staff, R(w.support_cost))),
              R(w.incident_mgmt)),
         R(w.model_retraining))

\* mutant: the year-2 operations cost enters as a credit
year2_ops_credit(year1) == RMul(year1, <<-108, 100>>)

year2_ops(year1) == RMul(year1, <<108, 100>>)

year3_ops(year2) == RMul(year2, <<108, 100>>)

year1_org(w) == R(w.training_cost + w.change_mgmt + w.governance_cost + w.legal_cost)

year2_org(year1) == RMul(year1, <<7, 10>>)

\* mutant: the year-2 factor reused for year 3
year3_org_samefactor(year2) == RMul(year2, <<7, 10>>)

year3_org(year2) == RMul(year2, <<8, 10>>)

\* the script's cost category variables after line 878
CostLocals(w) ==
    LET api1 == year1_api_cost(w)
        api2 == year2_api_cost(api1, w.growth_rate)
        emb1 == year1_embedding(w)
        emb2 == year2_embedding(emb1, w.growth_rate)
        infra1 == year1_infra(w)
        infra2 == year2_infra(infra1)
        dev1 == year1_dev(w)
        dev2 == year2_dev(dev1)
        data1 == year1_data(w)
        data2 == year2_data(data1)
        ops1 == year1_ops(w)
        ops2 == year2_ops(ops1)
        org1 == year1_org(w)
        org2 == year2_org(org1)
    IN  [year1_api_cost |-> api1, year2_api_cost |-> api2,
         year3_api_cost |-> year3_api_cost(api2, w.growth_rate),
         year1_embedding |-> emb1, year2_embedding |-> emb2,
         year3_embedding |-> year3_embedding(emb2, w.growth_rate),
         year1_infra |-> infra1, year2_infra |-> infra2, year3_infra |-> year3_infra(infra2),
         year1_dev |-> dev1, year2_dev |-> dev2, year3_dev |-> year3_dev(dev2),
         year1_data |-> data1, year2_data |-> data2, year3_data |-> year3_data(data2),
         year1_ops |-> ops1, year2_ops |-> ops2, year3_ops |-> year3_ops(ops2),
         year1_org |-> org1, year2_org |-> org2, year3_org |-> year3_org(org2)]

\* c is the record of the cost category variables
year1_subtotal(c) ==
    RAdd(RAdd(RAdd(RAdd(RAdd(RAdd(c.year1_api_cost, c.year1_embedding), c.year1_infra),
                        c.year1_dev),
                   c.year1_data),
              c.year1_ops),
         c.year1_org)

year1_contingency(subtotal, contingency_pct) ==
    RMul(subtotal, RDiv(R(contingency_pct), R(100)))

year1_total(subtotal, contingency) == RAdd(subtotal, contingency)

year2_subtotal(c) ==
    RAdd(RAdd(RAdd(RAdd(RAdd(RAdd(c.year2_api_cost, c.year2_embedding), c.year2_infra),
                        c.year2_dev),
                   c.year2_data),
              c.year2_ops),
         c.year2_org)

year2_contingency(subtotal, contingency_pct) ==
    RMul(subtotal, RDiv(R(contingency_pct), R(100)))

\* mutant: the year-2 total leaves the contingency out
year2_total_nocontingency(subtotal, contingency) == subtotal

year2_total(subtotal, contingency) == RAdd(subtotal, contingency)

year3_subtotal(c) ==
    RAdd(RAdd(RAdd(RAdd(RAdd(RAdd(c.year3_api_cost, c.year3_embedding), c.year3_infra),
                        c.year3_dev),
                   c.year3_data),
              c.year3_ops),
         c.year3_org)

year3_contingency(subtotal, contingency_pct) ==
    RMul(subtotal, RDiv(R(contingency_pct), R(100)))

year3_total(subtotal, contingency) == RAdd(subtotal, contingency)

\* mutant: three times the year-1 total
three_year_tco_threefold(y1, y2, y3) == RMul(R(3), y1)

three_year_tco(y1, y2, y3) == RAdd(RAdd(y1, y2), y3)

\* mutant: the contingency of year 1 is carried over to years 2 and 3
CostData_carried(w, c) ==
    LET s1 == year1_subtotal(c)
        c1 == year1_contingency(s1, w.contingency_pct)
        t1 == year1_total(s1, c1)
        t2 == year2_total(year2_subtotal(c), c1)
        t3 == year3_total(year3_subtotal(c), c1)
    IN  [year1_total |-> t1,
         year2_total |-> t2,
         year3_total |-> t3,
         three_year_tco |-> three_year_tco(t1, t2, t3),
         year1_breakdown |->
            [api_costs |-> RAdd(c.year1_api_cost, c.year1_embedding),
             infrastructure |-> c.year1_infra,
             development |-> c.year1_dev,
             data_management |-> c.year1_data,
             operations |-> c.year1_ops,
             organizational |-> c.year1_org,
             contingency |-> c1],
         org_name |-> w.org_name,
         industry |-> w.industry,
         use_case |-> w.use_case]

\* mutant: the 'API Costs' entry of the breakdown leaves the embedding out
CostData_apionly(w, c) ==
    LET s1 == year1_subtotal(c)
        c1 == year1_contingency(s1, w.contingency_pct)
        t1 == year1_total(s1, c1)
        s2 == year2_subtotal(c)
        t2 == year2_total(s2, year2_contingency(s2, w.contingency_pct))
        s3 == year3_subtotal(c)
        t3 == year3_total(s3, year3_contingency(s3, w.contingency_pct))
    IN  [year1_total |-> t1,
         year2_total |-> t2,
         year3_total |-> t3,
         three_year_tco |-> three_year_tco(t1, t2, t3),
         year1_breakdown |->
            [api_costs |-> c.year1_api_cost,
             infrastructure |-> c.year1_infra,
             development |-> c.year1_dev,
             data_management |-> c.year1_data,
             operations |-> c.year1_ops,
             organizational |-> c.year1_org,
             contingency |-> c1],
         org_name |-> w.org_name,
         industry |-> w.industry,
         use_case |-> w.use_case]

\* st.session_state.cost_data as the Cost Analysis tab stores it
CostData(w, c) ==
    LET s1 == year1_subtotal(c)
        c1 == year1_contingency(s1, w.contingency_pct)
        t1 == year1_total(s1, c1)
        s2 == year2_subtotal(c)
        t2 == year2_total(s2, year2_contingency(s2, w.contingency_pct))
        s3 == year3_subtotal(c)
        t3 == year3_total(s3, year3_contingency(s3, w.contingency_pct))
    IN  [year1_total |-> t1,
         year2_total |-> t2,
         year3_total |-> t3,
         three_year_tco |-> three_year_tco(t1, t2, t3),
         year1_breakdown |->
            [api_costs |-> RAdd(c.year1_api_cost, c.year1_embedding),
             infrastructure |-> c.year1_infra,
             development |-> c.year1_dev,
             data_management |-> c.year1_data,
             operations |-> c.year1_ops,
             organizational |-> c.year1_org,
             contingency |-> c1],
         org_name |-> w.org_name,
         industry |-> w.industry,
         use_case |-> w.use_case]

(***************************************************************************)
(* ROI Calculator tab: benefits                                            *)
(***************************************************************************)
annual_time_saved(w) == RMul(RMul(w.time_saved_per_user, R(w.affected_users)), R(52))

productivity_value_year1(w) ==
    RMul(RMul(annual_time_saved(w), R(w.hourly_rate)), RDiv(R(w.productivity_pct), R(100)))

productivity_value_year2(year1) == RMul(year1, <<12, 10>>)

\* mutant: the year-2 factor reused for year 3
productivity_value_year3_samefactor(year2) == RMul(year2, <<12, 10>>)

productivity_value_year3(year2) == RMul(year2, <<115, 100>>)

\* mutant: the sub-items are not discounted by the confidence
cost_reduction_year1_undiscounted(w) ==
    R(w.customer_service_reduction + w.process_automation_value + w.error_reduction_value)

cost_reduction_year1(w) ==
    RMul(R(w.customer_service_reduction + w.process_automation_value
            + w.error_reduction_value),
         RDiv(R(w.cost_reduction_confidence), R(100)))

cost_reduction_year2(year1) == RMul(year1, <<13, 10>>)

cost_reduction_year3(year2) == RMul(year2, <<12, 10>>)

revenue_year1(w) ==
    RMul(R(w.new_revenue + w.customer_retention), RDiv(R(w.revenue_confidence), R(100)))

\* mutant: revenue grows by 10% in year 2
revenue_year2_slow(year1) == RMul(year1, <<11, 10>>)

revenue_year2(year1) == RMul(year1, <<15, 10>>)

revenue_year3(year2) == RMul(year2, <<14, 10>>)

strategic_year1(w) ==
    RMul(R(w.competitive_advantage + w.innovation_value),
         RDiv(R(w.strategic_confidence), R(100)))

strategic_year2(year1) == RMul(year1, <<12, 10>>)

strategic_year3(year2) == RMul(year2, <<115, 100>>)

\* the script's benefit category variables after line 1050
BenefitLocals(w) ==
    LET prod1 == productivity_value_year1(w)
        prod2 == productivity_value_year2(prod1)
        cr1 == cost_reduction_year1(w)
        cr2 == cost_reduction_year2(cr1)
        rev1 == revenue_year1(w)
        rev2 == revenue_year2(rev1)
        str1 == strategic_year1(w)
        str2 == strategic_year2(str1)
    IN  [productivity_value_year1 |-> prod1, productivity_value_year2 |-> prod2,
         productivity_value_year3 |-> productivity_value_year3(prod2),
         cost_reduction_year1 |-> cr1, cost_reduction_year2 |-> cr2,
         cost_reduction_year3 |-> cost_reduction_year3(cr2),
         revenue_year1 |-> rev1, revenue_year2 |-> rev2,
         revenue_year3 |-> revenue_year3(rev2),
         strategic_year1 |-> str1, strategic_year2 |-> str2,
         strategic_year3 |-> strategic_year3(str2)]

\* b is the record of the benefit category variables
year1_benefits(b) ==
    RAdd(RAdd(RAdd(b.productivity_value_year1, b.cost_reduction_year1), b.revenue_year1),
         b.strategic_year1)

\* mutant: the strategic benefit is left out of year 2
year2_benefits_nostrategic(b) ==
    RAdd(RAdd(b.productivity_value_year2, b.cost_reduction_year2), b.revenue_year2)

year2_benefits(b) ==
    RAdd(RAdd(RAdd(b.productivity_value_year2, b.cost_reduction_year2), b.revenue_year2),
         b.strategic_year2)

year3_benefits(b) ==
    RAdd(RAdd(RAdd(b.productivity_value_year3, b.cost_reduction_year3), b.revenue_year3),
         b.strategic_year3)

three_year_benefits(y1, y2, y3) == RAdd(RAdd(y1, y2), y3)

(***************************************************************************)
(* ROI Calculator tab: ROI, payback period, sensitivity analysis           *)
(***************************************************************************)
net_benefit(benefits, tco) == RSub(benefits, tco)

\* mutant: the ratio is not scaled to a percentage
roi_percentage_ratio(benefits, tco) ==
    IF RGt(tco, RZero) THEN RDiv(RSub(benefits, tco), tco) ELSE RZero

roi_percentage(benefits, tco) ==
    IF RGt(tco, RZero)
    THEN RMul(RDiv(RSub(benefits, tco), tco), R(100))
    ELSE RZero

\* mutant: each year's run of months ends one month early
Monthly_shifted(y1, y2, y3) ==
    [i \in 1..36 |->
        IF i < 12 THEN RDiv(y1, R(12))
        ELSE IF i < 24 THEN RDiv(y2, R(12))
        ELSE RDiv(y3, R(12))]

\* mutant: the amounts of year 2 start in the seventh month
Monthly_halfyear(y1, y2, y3) ==
    [i \in 1..36 |->
        IF i <= 6 THEN RDiv(y1, R(12))
        ELSE IF i <= 24 THEN RDiv(y2, R(12))
        ELSE RDiv(y3, R(12))]

\* [y1/12] * 12 + [y2/12] * 12 + [y3/12] * 12, indexed from 1
Monthly(y1, y2, y3) ==
    LET m1 == RDiv(y1, R(12))
        m2 == RDiv(y2, R(12))
        m3 == RDiv(y3, R(12))
    IN  [i \in 1..36 |-> IF i <= 12 THEN m1 ELSE IF i <= 24 THEN m2 ELSE m3]

\* mutant: the loop index is stored instead of month + 1
RECURSIVE PaybackLoop_offbyone(_, _, _, _, _)
PaybackLoop_offbyone(month, cumulative_benefit, cumulative_cost, monthly_benefits, monthly_costs) ==
    IF month >= 36 THEN 0
    ELSE LET cb == RAdd(cumulative_benefit, monthly_benefits[month + 1])
             cc == RAdd(cumulative_cost, monthly_costs[month + 1])
         IN  IF RGeq(cb, cc) THEN month
             ELSE PaybackLoop_offbyone(month + 1, cb, cc, monthly_benefits, monthly_costs)

\* mutant: the tie is resolved with > instead of >=
RECURSIVE PaybackLoop_strict(_, _, _, _, _)
PaybackLoop_strict(month, cumulative_benefit, cumulative_cost, monthly_benefits, monthly_costs) ==
    IF month >= 36 THEN 0
    ELSE LET cb == RAdd(cumulative_benefit, monthly_benefits[month + 1])
             cc == RAdd(cumulative_cost, monthly_costs[month + 1])
         IN  IF RGt(cb, cc) THEN month + 1
             ELSE PaybackLoop_strict(month + 1, cb, cc, monthly_benefits, monthly_costs)

\* mutant: the month's amounts are compared, the sums are not accumulated
RECURSIVE PaybackLoop_monthly(_, _, _, _, _)
PaybackLoop_monthly(month, cumulative_benefit, cumulative_cost, monthly_benefits, monthly_costs) ==
    IF month >= 36 THEN 0
    ELSE LET cb == monthly_benefits[month + 1]
             cc == monthly_costs[month + 1]
         IN  IF RGeq(cb, cc) THEN month + 1
             ELSE PaybackLoop_monthly(month + 1, cb, cc, monthly_benefits, monthly_costs)

\* the loop "for month in range(36)" from index month on, with the running
\* sums on entry; the value of payback_months when the loop ends
RECURSIVE PaybackLoop(_, _, _, _, _)
PaybackLoop(month, cumulative_benefit, cumulative_cost, monthly_benefits, monthly_costs) ==
    IF month >= 36 THEN 0
    ELSE LET cb == RAdd(cumulative_benefit, monthly_benefits[month + 1])
             cc == RAdd(cumulative_cost, monthly_costs[month + 1])
         IN  IF RGeq(cb, cc) THEN month + 1
             ELSE PaybackLoop(month + 1, cb, cc, monthly_benefits, monthly_costs)

\* mutant: the "36+" replacement after the loop is missing
payback_months_nosentinel(monthly_benefits, monthly_costs) ==
    PyInt(PaybackLoop(0, RZero, RZero, monthly_benefits, monthly_costs))

payback_months(monthly_benefits, monthly_costs) ==
    LET found == PaybackLoop(0, RZero, RZero, monthly_benefits, monthly_costs)
    IN  IF found = 0 THEN PyStr("36+") ELSE PyInt(found)

\* mutant: the ROI and the net benefit are the fixed numbers of the demo data
RoiData_demo(b, cd) ==
    LET y1 == year1_benefits(b)
        y2 == year2_benefits(b)
        y3 == year3_benefits(b)
        total == three_year_benefits(y1, y2, y3)
    IN  [year1_benefits |-> y1,
         year2_benefits |-> y2,
         year3_benefits |-> y3,
         three_year_benefits |-> total,
         net_benefit |-> R(400000),
         roi_percentage |-> R(175),
         payback_months |->
            payback_months(Monthly(y1, y2, y3),
                           Monthly(cd.year1_total, cd.year2_total, cd.year3_total))]

\* st.session_state.roi_data as the ROI tab stores it, from the benefit
\* category variables and the cost_data of the session
RoiData(b, cd) ==
    LET y1 == year1_benefits(b)
        y2 == year2_benefits(b)
        y3 == year3_benefits(b)
        total == three_year_benefits(y1, y2, y3)
    IN  [year1_benefits |-> y1,
         year2_benefits |-> y2,
         year3_benefits |-> y3,
         three_year_benefits |-> total,
         net_benefit |-> net_benefit(total, cd.three_year_tco),
         roi_percentage |-> roi_percentage(total, cd.three_year_tco),
         payback_months |->
            payback_months(Monthly(y1, y2, y3),
                           Monthly(cd.year1_total, cd.year2_total, cd.year3_total))]

benefit_scenarios ==
    << [Scenario |-> "Pessimistic (70% of estimate)", multiplier |-> <<7, 10>>],
       [Scenario |-> "Base Case (100%)", multiplier |-> <<1, 1>>],
       [Scenario |-> "Optimistic (130% of estimate)", multiplier |-> <<13, 10>>] >>

\* TRUE when the unguarded division of the sensitivity loop raises
\* ZeroDivisionError
SensitivityRaises(tco) == tco = RZero

\* one pass of the sensitivity loop, for tco # 0
ScenarioResult(scenario, benefits, tco) ==
    LET adjusted_benefits == RMul(benefits, scenario.multiplier)
    IN  [Scenario |-> scenario.Scenario,
         ROI |-> RMul(RDiv(RSub(adjusted_benefits, tco), tco), R(100)),
         NetBenefit |-> RSub(adjusted_benefits, tco)]

SensitivityAnalysis(benefits, tco) ==
    [i \in 1..3 |-> ScenarioResult(benefit_scenarios[i], benefits, tco)]

(***************************************************************************)
(* The session and one run of the script                                   *)
(***************************************************************************)
VARIABLES
    widgets,            \* the widget values the next run reads
    cost_data,          \* st.session_state.cost_data
    roi_data,           \* st.session_state.roi_data
    calculation_done,   \* st.session_state.calculation_done
    scenario_results,   \* the sensitivity table of the last run, << >> if none
    locals,             \* the category variables of the last run
    exception,          \* the uncaught exception of the last run, or "none"
    scenarios,          \* st.session_state.scenarios: scenario name -> data
    current_scenario_name,  \* st.session_state.current_scenario_name
    json_file,          \* the JSON text exported last, << >> if none
    import_result,      \* what import_scenario_json returned last, << >> if none
    session_state,      \* the organization profile and input keys of
                        \* st.session_state that are set, with their values
    returned            \* the last call of load_scenario or delete_scenario
                        \* and what it returned, << >> if none

vars == <<widgets, cost_data, roi_data, calculation_done, scenario_results, locals,
          exception, scenarios, current_scenario_name, json_file, import_result,
          session_state, returned>>

\* what ScenarioManager keeps in the session, and the files it wrote and read
manager_vars == <<scenarios, current_scenario_name, json_file, import_result, returned>>

\* mutant: once a calculation is done, its results are kept and the widget
\* values are not read again
Run_cached(w, done) ==
    LET v == IF done THEN StartWidgets ELSE w
        c == CostLocals(v)
        b == BenefitLocals(v)
        cd == CostData(v, c)
        rd == RoiData(b, cd)
        raises == SensitivityRaises(cd.three_year_tco)
    IN  [cost_data |-> cd,
         roi_data |-> rd,
         locals |-> [cost |-> c, benefit |-> b],
         scenario_results |->
            IF raises THEN << >>
            ELSE SensitivityAnalysis(rd.three_year_benefits, cd.three_year_tco),
         exception |-> IF raises THEN "ZeroDivisionError" ELSE "none",
         calculation_done |-> IF raises THEN done ELSE TRUE]

\* The state a run of the script with widget values w leaves, in a session
\* whose calculation_done was done: the Cost Analysis tab stores cost_data,
\* the ROI tab stores roi_data and then renders the sensitivity analysis; if
\* that raises, the run ends there and calculation_done keeps its value.
Run(w, done) ==
    LET c == CostLocals(w)
        b == BenefitLocals(w)
        cd == CostData(w, c)
        rd == RoiData(b, cd)
        raises == SensitivityRaises(cd.three_year_tco)
    IN  [cost_data |-> cd,
         roi_data |-> rd,
         locals |-> [cost |-> c, benefit |-> b],
         scenario_results |->
            IF raises THEN << >>
            ELSE SensitivityAnalysis(rd.three_year_benefits, cd.three_year_tco),
         exception |-> IF raises THEN "ZeroDivisionError" ELSE "none",
         calculation_done |-> IF raises THEN done ELSE TRUE]

CostWidgets ==
    {"cost_per_million_tokens", "growth_rate", "embedding_cost", "compute_cost",
     "ai_engineers", "data_prep_cost", "incident_mgmt", "training_cost",
     "contingency_pct"}

BenefitWidgets == DOMAIN Varied \ CostWidgets

Changed(w) == {k \in DOMAIN Varied : w[k] # StartWidgets[k]}

\* the keys a run of the script stores for the risk assessment: org_size and
\* maturity, from their select boxes, which stay at their defaults
ScriptKeys(session) ==
    [k \in DOMAIN session \cup {"org_size", "maturity"} |->
        IF k = "org_size" THEN PyStr("500-1000")
        ELSE IF k = "maturity" THEN PyStr("Pilot")
        ELSE session[k]]

\* A session whose widgets have been set to StartWidgets and whose last run
\* read them.  calculation_done is TRUE: the first run of a session reads the
\* widget defaults, whose costs are positive, and completes.
Init ==
    \E r \in {Run(StartWidgets, TRUE)} :
        /\ widgets = StartWidgets
        /\ cost_data = r.cost_data
        /\ roi_data = r.roi_data
        /\ locals = r.locals
        /\ scenario_results = r.scenario_results
        /\ exception = r.exception
        /\ calculation_done = r.calculation_done
        /\ scenarios = << >>
        /\ current_scenario_name = "Default Scenario"
        /\ json_file = << >>
        /\ import_result = << >>
        /\ session_state = ScriptKeys(<< >>)
        /\ returned = << >>

\* the user changes one widget of the given tab; the script reruns
ChangeWidget(keys) ==
    \E k \in keys : \E v \in Varied[k] :
        /\ v # widgets[k]
        /\ Cardinality(Changed([widgets EXCEPT ![k] = v])) <= MaxChanged
        /\ widgets' = [widgets EXCEPT ![k] = v]
        /\ \E r \in {Run([widgets EXCEPT ![k] = v], calculation_done)} :
               /\ cost_data' = r.cost_data
               /\ roi_data' = r.roi_data
               /\ locals' = r.locals
               /\ scenario_results' = r.scenario_results
               /\ exception' = r.exception
               /\ calculation_done' = r.calculation_done
        /\ session_state' = ScriptKeys(session_state)
        /\ UNCHANGED manager_vars

ChangeCostWidget == ChangeWidget(CostWidgets)

ChangeBenefitWidget == ChangeWidget(BenefitWidgets)

Next == ChangeCostWidget \/ ChangeBenefitWidget

Spec == Init /\ [][Next]_vars

(***************************************************************************)
(* save_load_manager.py: the scenarios of the session, JSON export and     *)
(* import.  A Python dict is a function on its keys; a dict whose values   *)
(* are ints and strs holds PyInt and PyStr values.                         *)
(***************************************************************************)
\* what the user types into the "Scenario Name" text input; "" is the empty
\* input, which the manager's "if scenario_name" tests take for no name
ScenarioNames == {"", "Q1", "Q2"}

\* values of datetime.now().isoformat()
Dates == {"2025-01-01T09:00:00"}

\* the keys of data['inputs']
InputKeys ==
    {"model_provider", "avg_tokens_per_request", "requests_per_day",
     "cost_per_million_tokens", "growth_rate", "embedding_cost",
     "compute_cost", "storage_cost", "networking_cost", "security_tools",
     "monitoring_tools", "backup_dr",
     "ai_engineers", "ai_engineer_cost", "backend_devs", "backend_cost",
     "frontend_devs", "frontend_cost", "qa_engineers", "qa_cost", "dev_tools",
     "data_engineers", "data_engineer_cost", "data_prep_cost", "data_quality_tools",
     "data_labeling",
     "ops_engineers", "ops_cost", "support_staff", "support_cost", "incident_mgmt",
     "model_retraining",
     "training_cost", "change_mgmt", "governance_cost", "legal_cost",
     "contingency_pct",
     "time_saved_per_user", "hourly_rate", "affected_users", "productivity_pct",
     "customer_service_reduction", "process_automation_value", "error_reduction_value",
     "cost_reduction_confidence", "new_revenue", "customer_retention",
     "revenue_confidence", "competitive_advantage", "innovation_value",
     "strategic_confidence"}

\* the keys of data['org_profile']
ProfileKeys ==
    {"org_name", "industry", "org_size", "maturity", "use_case", "expected_users"}

\* st.session_state.get(key, default)
SessionGet(key, default) ==
    IF key \in DOMAIN session_state THEN session_state[key] ELSE default

\* The data of the session as one dict.  The script stores cost_data,
\* roi_data, org_size and maturity in the session state; its widgets have no
\* key, so another profile or input key is set only once load_scenario has
\* stored it.
get_current_data(now) ==
    [metadata |-> [scenario_name |-> current_scenario_name,
                   created_date |-> now,
                   version |-> "2.2"],
     cost_data |-> cost_data,
     roi_data |-> roi_data,
     risk_scores |-> << >>,
     org_profile |-> [k \in ProfileKeys |->
                         SessionGet(k, IF k = "expected_users" THEN PyInt(0)
                                       ELSE PyStr(""))],
     inputs |-> [k \in InputKeys |->
                    SessionGet(k, IF k = "model_provider" THEN PyStr("")
                                  ELSE PyInt(0))]]

\* d with d[key] = value
DictSet(d, key, value) ==
    [k \in DOMAIN d \cup {key} |-> IF k = key THEN value ELSE d[k]]

\* the session values save_scenario(scenario_name) leaves; it returns True
save_scenario(scenario_name, now) ==
    LET data == [get_current_data(now) EXCEPT !.metadata.scenario_name = scenario_name]
    IN  [scenarios |-> DictSet(scenarios, scenario_name, data),
         current_scenario_name |-> scenario_name]

\* mutant: the loaded scenario does not become the current one
load_scenario_keepname(scenario_name) ==
    IF scenario_name \notin DOMAIN scenarios
    THEN [returned |-> FALSE,
          cost_data |-> cost_data,
          roi_data |-> roi_data,
          session_state |-> session_state,
          current_scenario_name |-> current_scenario_name]
    ELSE LET data == scenarios[scenario_name]
             org_profile == data.org_profile
             inputs == data.inputs
         IN  [returned |-> TRUE,
              cost_data |-> data.cost_data,
              roi_data |-> data.roi_data,
              session_state |->
                 [k \in DOMAIN session_state \cup DOMAIN org_profile \cup DOMAIN inputs |->
                     IF k \in DOMAIN inputs THEN inputs[k]
                     ELSE IF k \in DOMAIN org_profile THEN org_profile[k]
                     ELSE session_state[k]],
              current_scenario_name |-> current_scenario_name]

\* load_scenario(scenario_name): what it returns and the session values it
\* leaves.  risk_scores is {} in the session and in every saved scenario.
load_scenario(scenario_name) ==
    IF scenario_name \notin DOMAIN scenarios
    THEN [returned |-> FALSE,
          cost_data |-> cost_data,
          roi_data |-> roi_data,
          session_state |-> session_state,
          current_scenario_name |-> current_scenario_name]
    ELSE LET data == scenarios[scenario_name]
             org_profile == data.org_profile
             inputs == data.inputs
         IN  [returned |-> TRUE,
              cost_data |-> data.cost_data,
              roi_data |-> data.roi_data,
              session_state |->
                 [k \in DOMAIN session_state \cup DOMAIN org_profile \cup DOMAIN inputs |->
                     IF k \in DOMAIN inputs THEN inputs[k]
                     ELSE IF k \in DOMAIN org_profile THEN org_profile[k]
                     ELSE session_state[k]],
              current_scenario_name |-> scenario_name]

\* d without its key
DictDel(d, key) == [k \in DOMAIN d \ {key} |-> d[k]]

\* mutant: an unknown name empties the scenarios
delete_scenario_clearing(scenario_name) ==
    IF scenario_name \in DOMAIN scenarios
    THEN [returned |-> TRUE, scenarios |-> DictDel(scenarios, scenario_name)]
    ELSE [returned |-> FALSE, scenarios |-> << >>]

\* delete_scenario(scenario_name): what it returns and the scenarios it leaves
delete_scenario(scenario_name) ==
    IF scenario_name \in DOMAIN scenarios
    THEN [returned |-> TRUE, scenarios |-> DictDel(scenarios, scenario_name)]
    ELSE [returned |-> FALSE, scenarios |-> scenarios]

\* auto_save(): the session values it leaves
auto_save(now) ==
    LET auto_save_name == "_autosave_" \o current_scenario_name
    IN  save_scenario(auto_save_name, now)

(***************************************************************************)
(* json.dumps and json.loads.  A JSON text is the tree of its tokens: a    *)
(* number token is an integer literal or a literal with a fraction part, a *)
(* string token holds its characters, an object is a function on its       *)
(* member names.                                                           *)
(***************************************************************************)
JsonNumber(x, integer) ==
    [json |-> "number", number |-> x, integer |-> integer, string |-> ""]

JsonString(s) == [json |-> "string", number |-> RZero, integer |-> FALSE, string |-> s]

\* a Python float is written by float.__repr__: the shortest literal with a
\* fraction part that reads back as the same float
dumps_float(x) == JsonNumber(x, FALSE)

\* mutant: the "36+" sentinel is written as the number 36
dumps_value_numeric(v) ==
    IF v.type = "int" THEN JsonNumber(R(v.int), TRUE)
    ELSE IF v.str = "36+" THEN JsonNumber(R(36), TRUE)
    ELSE JsonString(v.str)

\* a Python int is written as an integer literal, a str as a string
dumps_value(v) ==
    IF v.type = "int" THEN JsonNumber(R(v.int), TRUE) ELSE JsonString(v.str)

\* a literal with a fraction part is read as a float; an integer literal is
\* read as the int of the same value
loads_float(token) == token.number

\* a string is read as a str, an integer literal as an int
loads_value(token) ==
    IF token.json = "string" THEN PyStr(token.string) ELSE PyInt(token.number[1])

\* the JSON text of the member key of a scenario dict: cost_data and
\* roi_data hold floats, strs and payback_months, which is an int or a str;
\* the metadata holds strs; the other dicts hold ints and strs
dumps_member(key, value) ==
    CASE key = "metadata" -> [k \in DOMAIN value |-> JsonString(value[k])]
      [] key = "cost_data" ->
            [year1_total |-> dumps_float(value.year1_total),
             year2_total |-> dumps_float(value.year2_total),
             year3_total |-> dumps_float(value.year3_total),
             three_year_tco |-> dumps_float(value.three_year_tco),
             year1_breakdown |->
                [k \in DOMAIN value.year1_breakdown |->
                    dumps_float(value.year1_breakdown[k])],
             org_name |-> JsonString(value.org_name),
             industry |-> JsonString(value.industry),
             use_case |-> JsonString(value.use_case)]
      [] key = "roi_data" ->
            [year1_benefits |-> dumps_float(value.year1_benefits),
             year2_benefits |-> dumps_float(value.year2_benefits),
             year3_benefits |-> dumps_float(value.year3_benefits),
             three_year_benefits |-> dumps_float(value.three_year_benefits),
             net_benefit |-> dumps_float(value.net_benefit),
             roi_percentage |-> dumps_float(value.roi_percentage),
             payback_months |-> dumps_value(value.payback_months)]
      [] OTHER -> [k \in DOMAIN value |-> dumps_value(value[k])]

\* json.dumps(data, indent=2) of a scenario dict
json_dumps(data) == [key \in DOMAIN data |-> dumps_member(key, data[key])]

\* the Python value of the member key of the text of a scenario dict
loads_member(key, object) ==
    CASE key = "metadata" -> [k \in DOMAIN object |-> object[k].string]
      [] key = "cost_data" ->
            [year1_total |-> loads_float(object.year1_total),
             year2_total |-> loads_float(object.year2_total),
             year3_total |-> loads_float(object.year3_total),
             three_year_tco |-> loads_float(object.three_year_tco),
             year1_breakdown |->
                [k \in DOMAIN object.year1_breakdown |->
                    loads_float(object.year1_breakdown[k])],
             org_name |-> object.org_name.string,
             industry |-> object.industry.string,
             use_case |-> object.use_case.string]
      [] key = "roi_data" ->
            [year1_benefits |-> loads_float(object.year1_benefits),
             year2_benefits |-> loads_float(object.year2_benefits),
             year3_benefits |-> loads_float(object.year3_benefits),
             three_year_benefits |-> loads_float(object.three_year_benefits),
             net_benefit |-> loads_float(object.net_benefit),
             roi_percentage |-> loads_float(object.roi_percentage),
             payback_months |-> loads_value(object.payback_months)]
      [] OTHER -> [k \in DOMAIN object |-> loads_value(object[k])]

\* a text that is not JSON
NotJson == [json |-> "invalid", number |-> RZero, integer |-> FALSE, string |-> "{"]

\* the text is one token, not an object
IsToken(text) == "json" \in DOMAIN text

\* json.loads(json_str) of the text of an object, a scenario dict or another
json_loads(json_str) ==
    [key \in DOMAIN json_str |->
        IF IsToken(json_str[key]) THEN loads_value(json_str[key])
        ELSE loads_member(key, json_str[key])]

\* the text export_scenario_json(scenario_name) returns: the saved scenario
\* of that name, or the current data when the name is empty or not saved
export_scenario_json(scenario_name, now) ==
    LET data == IF scenario_name # "" /\ scenario_name \in DOMAIN scenarios
                THEN scenarios[scenario_name]
                ELSE get_current_data(now)
    IN  json_dumps(data)

\* datetime.now().strftime('%Y%m%d_%H%M%S') of an import
Stamps == {"20250101_090000"}

\* mutant: the scenario is stored before the metadata is looked at
import_scenario_json_eager(json_str, scenario_name) ==
    IF json_str = NotJson
    THEN [success |-> FALSE, message |-> <<"Invalid JSON file: ">>,
          scenarios |-> scenarios]
    ELSE IF IsToken(json_str)
    THEN [success |-> FALSE, message |-> <<"Error importing scenario: ">>,
          scenarios |-> scenarios]
    ELSE [success |-> FALSE,
          message |-> <<"Invalid file format: missing metadata">>,
          scenarios |-> DictSet(scenarios, scenario_name, << >>)]

\* what import_scenario_json(json_str, scenario_name) returns (success and
\* message, without the text of the exception) and the scenarios it leaves.
\* json.loads raises JSONDecodeError for a text that is not JSON; the
\* membership test raises TypeError for a number and is false for a short
\* string; .get raises AttributeError for a metadata that is not an object.
import_scenario_json(json_str, scenario_name) ==
    IF json_str = NotJson
    THEN [success |-> FALSE, message |-> <<"Invalid JSON file: ">>,
          scenarios |-> scenarios]
    ELSE IF IsToken(json_str)
    THEN IF json_str.json = "number"
         THEN [success |-> FALSE, message |-> <<"Error importing scenario: ">>,
               scenarios |-> scenarios]
         ELSE [success |-> FALSE,
               message |-> <<"Invalid file format: missing metadata">>,
               scenarios |-> scenarios]
    ELSE IF "metadata" \notin DOMAIN json_str
    THEN [success |-> FALSE,
          message |-> <<"Invalid file format: missing metadata">>,
          scenarios |-> scenarios]
    ELSE IF scenario_name = "" /\ IsToken(json_str.metadata)
    THEN [success |-> FALSE, message |-> <<"Error importing scenario: ">>,
          scenarios |-> scenarios]
    ELSE LET data == json_loads(json_str)
             name == IF scenario_name # "" THEN scenario_name
                     ELSE IF "scenario_name" \in DOMAIN data.metadata
                     THEN data.metadata.scenario_name
                     ELSE "Imported_" \o (CHOOSE stamp \in Stamps : TRUE)
         IN  [success |-> TRUE,
              message |-> <<"Successfully imported scenario: ", name>>,
              scenarios |-> DictSet(scenarios, name, data)]

(***************************************************************************)
(* The session with the scenario manager                                   *)
(***************************************************************************)
app_vars == <<widgets, cost_data, roi_data, calculation_done, scenario_results, locals,
              exception, session_state>>

\* the widgets changed in the sessions that save scenarios
ScenarioWidgets == {"embedding_cost"}

ChangeScenarioInput == ChangeWidget(ScenarioWidgets)

\* the Save button with a name in the text input; an empty name is refused.
\* The rerun that follows reads the same widget values.
Save(new_scenario_name, now) ==
    /\ new_scenario_name # ""
    /\ \E r \in {save_scenario(new_scenario_name, now)} :
           /\ scenarios' = r.scenarios
           /\ current_scenario_name' = r.current_scenario_name
    /\ UNCHANGED <<app_vars, json_file, import_result, returned>>

SaveScenario ==
    \E new_scenario_name \in ScenarioNames : \E now \in Dates :
        Save(new_scenario_name, now)

\* a scenario, or the current data, is exported to a file
ExportScenario ==
    \E scenario_name \in ScenarioNames : \E now \in Dates :
        /\ json_file' = <<export_scenario_json(scenario_name, now)>>
        /\ UNCHANGED <<app_vars, scenarios, current_scenario_name, import_result, returned>>

\* the exported file is uploaded and imported
ImportScenario ==
    /\ json_file # << >>
    /\ \E r \in {import_scenario_json(json_file[1], "")} :
           /\ scenarios' = r.scenarios
           /\ import_result' = <<[success |-> r.success, message |-> r.message]>>
    /\ UNCHANGED <<app_vars, current_scenario_name, json_file, returned>>

\* load_scenario is called with a name, saved or not
Load(scenario_name) ==
    \E r \in {load_scenario(scenario_name)} :
        /\ cost_data' = r.cost_data
        /\ roi_data' = r.roi_data
        /\ session_state' = r.session_state
        /\ current_scenario_name' = r.current_scenario_name
        /\ returned' = <<[call |-> "load_scenario", name |-> scenario_name,
                          value |-> r.returned]>>
        /\ UNCHANGED <<widgets, calculation_done, scenario_results, locals,
                       exception, scenarios, json_file, import_result>>

LoadScenario == \E scenario_name \in ScenarioNames : Load(scenario_name)

\* delete_scenario is called with a name, saved or not
Delete(scenario_name) ==
    \E r \in {delete_scenario(scenario_name)} :
        /\ scenarios' = r.scenarios
        /\ returned' = <<[call |-> "delete_scenario", name |-> scenario_name,
                          value |-> r.returned]>>
        /\ UNCHANGED <<app_vars, current_scenario_name, json_file, import_result>>

DeleteScenario == \E scenario_name \in ScenarioNames : Delete(scenario_name)

ManagerNext == ChangeScenarioInput \/ SaveScenario \/ LoadScenario \/ DeleteScenario

ManagerSpec == Init /\ [][ManagerNext]_vars

\* the names of at most k "_autosave_" prefixes before a name that is typed or
\* the initial one
RECURSIVE AutoSaveNames(_)
AutoSaveNames(k) ==
    IF k = 0 THEN (ScenarioNames \ {""}) \cup {"Default Scenario"}
    ELSE {"_autosave_" \o name : name \in AutoSaveNames(k - 1)}

\* enable_auto_save after the interval has passed: the session is auto-saved.
\* The runs stop after MaxAutoSaves prefixes.
AutoSave ==
    \E now \in Dates :
        /\ \E k \in 0..(MaxAutoSaves - 1) : current_scenario_name \in AutoSaveNames(k)
        /\ \E r \in {auto_save(now)} :
               /\ scenarios' = r.scenarios
               /\ current_scenario_name' = r.current_scenario_name
        /\ UNCHANGED <<app_vars, json_file, import_result, returned>>

\* a session that is never saved by hand
AutoSaveNext == ChangeScenarioInput \/ AutoSave

AutoSaveSpec == Init /\ [][AutoSaveNext]_vars

\* the texts of files that no export has written: not JSON, a number, a
\* string, an object without metadata, a metadata that is a number, an empty
\* metadata
OddFiles ==
    {NotJson, JsonNumber(R(5), TRUE), JsonString("x"), << >>,
     [cost_data |-> << >>],
     [metadata |-> JsonNumber(R(1), TRUE)],
     [metadata |-> << >>]}

\* a file is put into the uploader: one that was exported or any other
UploadFile ==
    /\ \E text \in OddFiles \cup {export_scenario_json(n, now) :
                                      n \in ScenarioNames, now \in Dates} :
           json_file' = <<text>>
    /\ UNCHANGED <<app_vars, scenarios, current_scenario_name, import_result, returned>>

\* a session whose scenarios all come from files
ImportNext == ChangeScenarioInput \/ UploadFile \/ ImportScenario

ImportSpec == Init /\ [][ImportNext]_vars

ScenarioNext == ChangeScenarioInput \/ SaveScenario \/ ExportScenario \/ ImportScenario

ScenarioSpec == Init /\ [][ScenarioNext]_vars

(***************************************************************************)
(* input_validation.py.  The numbers of an inputs dict are rationals; a    *)
(* message is the sequence of the parts of its f-string, the formatted     *)
(* value and the leading symbol left out.                                  *)
(***************************************************************************)
THRESHOLDS == [max_fte |-> 20, max_hourly_rate |-> 500, max_growth_rate |-> 200]

\* inputs.get(key, default)
Get(inputs, key, default) == IF key \in DOMAIN inputs THEN inputs[key] ELSE default

\* the (valid, msg) pair of InputValidator.validate_positive_number, for a
\* value that is not None
validate_positive_number(value, field_name, allow_zero) ==
    IF allow_zero
    THEN IF RLt(value, RZero)
         THEN [valid |-> FALSE, msg |-> <<field_name, " cannot be negative">>]
         ELSE [valid |-> TRUE, msg |-> << >>]
    ELSE IF RLeq(value, RZero)
         THEN [valid |-> FALSE, msg |-> <<field_name, " must be greater than zero">>]
         ELSE [valid |-> TRUE, msg |-> << >>]

\* InputValidator.validate_cost with max_warning=None
validate_cost(value, field_name) == validate_positive_number(value, field_name, TRUE)

validate_growth_rate(value) ==
    LET positive == validate_positive_number(value, "Growth Rate", TRUE)
    IN  IF ~positive.valid THEN positive
        ELSE IF RGt(value, R(THRESHOLDS.max_growth_rate))
        THEN [valid |-> FALSE,
              msg |-> <<"Growth rate of ", "% per year is very aggressive. Typical AI projects see 20-80% annual growth. Please verify.">>]
        ELSE [valid |-> TRUE, msg |-> << >>]

validate_fte(value, field_name) ==
    LET positive == validate_positive_number(value, field_name, TRUE)
    IN  IF ~positive.valid THEN positive
        ELSE IF RGt(value, R(THRESHOLDS.max_fte))
        THEN [valid |-> FALSE,
              msg |-> <<field_name, ": ", " FTE is very high. Typical projects use fewer resources. Please verify.">>]
        ELSE [valid |-> TRUE, msg |-> << >>]

\* the fields of the FTE loop with field.replace('_', ' ').title()
FteFields ==
    << [field |-> "ai_engineers", title |-> "Ai Engineers"],
       [field |-> "backend_devs", title |-> "Backend Devs"],
       [field |-> "frontend_devs", title |-> "Frontend Devs"],
       [field |-> "qa_engineers", title |-> "Qa Engineers"],
       [field |-> "data_engineers", title |-> "Data Engineers"],
       [field |-> "ops_engineers", title |-> "Ops Engineers"],
       [field |-> "support_staff", title |-> "Support Staff"] >>

\* the messages appended for a check: none when it is valid
Appended(check) == IF check.valid THEN << >> ELSE <<check.msg>>

\* the warnings the FTE loop appends from field i on
RECURSIVE FteWarnings(_, _)
FteWarnings(inputs, i) ==
    IF i > Len(FteFields) THEN << >>
    ELSE Appended(validate_fte(Get(inputs, FteFields[i].field, RZero), FteFields[i].title))
            \o FteWarnings(inputs, i + 1)

ContingencyLow == <<"Contingency buffer < 10% is risky for AI projects. Recommend 15-25%.">>

ContingencyHigh == <<"Contingency buffer > 50% seems excessive. Typical range is 15-25%.">>

\* the errors validate_cost_inputs collects
CostInputErrors(inputs) ==
    (IF Get(inputs, "org_name", "") = ""
       THEN << <<"Organization name is required">> >> ELSE << >>)
    \o Appended(validate_positive_number(Get(inputs, "avg_tokens_per_request", RZero),
                                         "Average Tokens per Request", FALSE))
    \o Appended(validate_positive_number(Get(inputs, "requests_per_day", RZero),
                                         "Requests per Day", FALSE))
    \o Appended(validate_cost(Get(inputs, "cost_per_million_tokens", RZero),
                              "Cost per Million Tokens"))

\* the warnings validate_cost_inputs collects before the contingency check
CostInputWarnings(inputs) ==
    Appended(validate_growth_rate(Get(inputs, "growth_rate", RZero)))
    \o FteWarnings(inputs, 1)
    \o (IF RGt(Get(inputs, "ai_engineer_cost", RZero), R(300000))
          THEN << <<"AI Engineer annual cost of $", " is very high. Typical range is $150K-$250K.">> >>
          ELSE << >>)

\* mutant: a contingency out of the range is an error
validate_cost_inputs_blocking(inputs) ==
    LET contingency == Get(inputs, "contingency_pct", RZero)
    IN  [errors |-> CostInputErrors(inputs)
                      \o (IF RLt(contingency, R(10)) THEN <<ContingencyLow>>
                          ELSE IF RGt(contingency, R(50)) THEN <<ContingencyHigh>>
                          ELSE << >>),
         warnings |-> CostInputWarnings(inputs)]

\* the (errors, warnings) pair validate_cost_inputs(inputs) returns
validate_cost_inputs(inputs) ==
    LET contingency == Get(inputs, "contingency_pct", RZero)
    IN  [errors |-> CostInputErrors(inputs),
         warnings |-> CostInputWarnings(inputs)
                        \o (IF RLt(contingency, R(10)) THEN <<ContingencyLow>>
                            ELSE IF RGt(contingency, R(50)) THEN <<ContingencyHigh>>
                            ELSE << >>)]

\* InputValidator.validate_percentage with min_val=0 and max_val=100
validate_percentage(value, field_name) ==
    LET positive == validate_positive_number(value, field_name, TRUE)
    IN  IF ~positive.valid THEN positive
        ELSE IF RLt(value, RZero) \/ RGt(value, R(100))
        THEN [valid |-> FALSE, msg |-> <<field_name, " must be between 0% and 100%">>]
        ELSE [valid |-> TRUE, msg |-> << >>]

validate_hourly_rate(value) ==
    LET positive == validate_positive_number(value, "Hourly Rate", FALSE)
    IN  IF ~positive.valid THEN positive
        ELSE IF RGt(value, R(THRESHOLDS.max_hourly_rate))
        THEN [valid |-> FALSE,
              msg |-> <<"Hourly rate of $", " is very high. Typical rates are $50-$200/hour. Please verify.">>]
        ELSE IF RLt(value, R(20))
        THEN [valid |-> FALSE,
              msg |-> <<"Hourly rate of $", " is very low. Please verify.">>]
        ELSE [valid |-> TRUE, msg |-> << >>]

\* the confidence fields of validate_roi_inputs with their titles
ConfidenceFields ==
    << <<"productivity_pct", "Productivity Pct">>,
       <<"cost_reduction_confidence", "Cost Reduction Confidence">>,
       <<"revenue_confidence", "Revenue Confidence">>,
       <<"strategic_confidence", "Strategic Confidence">> >>

\* the errors of the loop over the confidence fields, from field i on
RECURSIVE ConfidenceErrors(_, _)
ConfidenceErrors(inputs, i) ==
    IF i > Len(ConfidenceFields) THEN << >>
    ELSE Appended(validate_percentage(Get(inputs, ConfidenceFields[i][1], RZero),
                                      ConfidenceFields[i][2]))
         \o ConfidenceErrors(inputs, i + 1)

\* the (errors, warnings) pair validate_roi_inputs(inputs) returns
validate_roi_inputs(inputs) ==
    LET time_saved == Get(inputs, "time_saved_per_user", RZero)
    IN  [errors |-> Appended(validate_positive_number(time_saved,
                                                      "Time Saved per User", TRUE))
                      \o ConfidenceErrors(inputs, 1),
         warnings |-> (IF RGt(time_saved, R(40))
                         THEN << <<"Time saved > 40 hours/week is unrealistic (exceeds working hours). Please verify.">> >>
                         ELSE << >>)
                      \o Appended(validate_hourly_rate(Get(inputs, "hourly_rate", R(75))))]

\* mutant: a warning makes the inputs invalid as well
validate_before_calculation_strict(cost_data_inputs, roi_data_inputs) ==
    LET cost == validate_cost_inputs(cost_data_inputs)
        roi == validate_roi_inputs(roi_data_inputs)
        all_errors == cost.errors \o roi.errors
        all_warnings == cost.warnings \o roi.warnings
    IN  [is_valid |-> Len(all_errors) = 0 /\ Len(all_warnings) = 0,
         errors |-> all_errors,
         warnings |-> all_warnings]

\* the (is_valid, errors, warnings) triple validate_before_calculation returns
validate_before_calculation(cost_data_inputs, roi_data_inputs) ==
    LET cost == validate_cost_inputs(cost_data_inputs)
        roi == validate_roi_inputs(roi_data_inputs)
        all_errors == cost.errors \o roi.errors
        all_warnings == cost.warnings \o roi.warnings
    IN  [is_valid |-> Len(all_errors) = 0,
         errors |-> all_errors,
         warnings |-> all_warnings]

\* the cost_inputs dict the Cost Analysis tab builds from its widgets
cost_inputs(w) ==
    [org_name |-> w.org_name,
     avg_tokens_per_request |-> R(w.avg_tokens_per_request),
     requests_per_day |-> R(w.requests_per_day),
     cost_per_million_tokens |-> w.cost_per_million_tokens,
     growth_rate |-> R(w.growth_rate),
     contingency_pct |-> R(w.contingency_pct)]

(***************************************************************************)
(* IEEE 754 binary64 arithmetic, round to nearest, ties to even, for the   *)
(* finite normal numbers and zero.  A natural number is the sequence of    *)
(* its digits in base 2^15, the lowest first and the highest not zero; a   *)
(* float is sign * m * 2^e with m of exactly 53 bits, or zero.             *)
(***************************************************************************)
LimbBase == 32768

RECURSIVE Pow2(_)
Pow2(k) == IF k = 0 THEN 1 ELSE 2 * Pow2(k - 1)

RECURSIVE BNorm(_)
BNorm(a) ==
    IF a = << >> THEN a
    ELSE IF a[Len(a)] = 0 THEN BNorm(SubSeq(a, 1, Len(a) - 1))
    ELSE a

RECURSIVE BFromInt(_)
BFromInt(n) == IF n = 0 THEN << >> ELSE <<n % LimbBase>> \o BFromInt(n \div LimbBase)

Limb(a, i) == IF i <= Len(a) THEN a[i] ELSE 0

RECURSIVE BAddFrom(_, _, _, _)
BAddFrom(a, b, i, carry) ==
    IF i > Len(a) /\ i > Len(b)
    THEN IF carry = 0 THEN << >> ELSE <<carry>>
    ELSE LET s == Limb(a, i) + Limb(b, i) + carry
         IN  <<s % LimbBase>> \o BAddFrom(a, b, i + 1, s \div LimbBase)

BAdd(a, b) == BAddFrom(a, b, 1, 0)

\* a - b for a >= b
RECURSIVE BSubFrom(_, _, _, _)
BSubFrom(a, b, i, borrow) ==
    IF i > Len(a) THEN << >>
    ELSE LET d == Limb(a, i) - Limb(b, i) - borrow
         IN  IF d < 0 THEN <<d + LimbBase>> \o BSubFrom(a, b, i + 1, 1)
             ELSE <<d>> \o BSubFrom(a, b, i + 1, 0)

BSub(a, b) == BNorm(BSubFrom(a, b, 1, 0))

\* -1, 0 or 1 as a < b, a = b or a > b
RECURSIVE BCmpFrom(_, _, _)
BCmpFrom(a, b, i) ==
    IF i = 0 THEN 0
    ELSE IF a[i] < b[i] THEN -1
    ELSE IF a[i] > b[i] THEN 1
    ELSE BCmpFrom(a, b, i - 1)

BCmp(a, b) ==
    IF Len(a) < Len(b) THEN -1
    ELSE IF Len(a) > Len(b) THEN 1
    ELSE BCmpFrom(a, b, Len(a))

\* a * k for 0 <= k < 2^15
RECURSIVE BMulSmallFrom(_, _, _, _)
BMulSmallFrom(a, k, i, carry) ==
    IF i > Len(a)
    THEN IF carry = 0 THEN << >> ELSE <<carry>>
    ELSE LET p == a[i] * k + carry
         IN  <<p % LimbBase>> \o BMulSmallFrom(a, k, i + 1, p \div LimbBase)

BMulSmall(a, k) == BNorm(BMulSmallFrom(a, k, 1, 0))

BShiftLimbs(a, n) == IF a = << >> THEN a ELSE [i \in 1..n |-> 0] \o a

RECURSIVE BMulFrom(_, _, _)
BMulFrom(a, b, i) ==
    IF i > Len(b) THEN << >>
    ELSE BAdd(BShiftLimbs(BMulSmall(a, b[i]), i - 1), BMulFrom(a, b, i + 1))

BMul(a, b) == BMulFrom(a, b, 1)

\* a + a
BDouble(a) == BAdd(a, a)

\* a * 2^k
BShl(a, k) == BShiftLimbs(BMulSmall(a, Pow2(k % 15)), k \div 15)

\* the quotient of a by k for 0 < k < 2^15, from digit i down with the
\* remainder of the digits above
RECURSIVE BDivSmallFrom(_, _, _, _)
BDivSmallFrom(a, k, i, rem) ==
    IF i = 0 THEN << >>
    ELSE LET cur == rem * LimbBase + a[i]
         IN  BDivSmallFrom(a, k, i - 1, cur % k) \o <<cur \div k>>

\* floor(a / 2^k)
BShr(a, k) ==
    LET high == SubSeq(a, (k \div 15) + 1, Len(a))
    IN  BNorm(BDivSmallFrom(high, Pow2(k % 15), Len(high), 0))

RECURSIVE IntBitLen(_)
IntBitLen(n) == IF n = 0 THEN 0 ELSE 1 + IntBitLen(n \div 2)

BitLen(a) == IF a = << >> THEN 0 ELSE 15 * (Len(a) - 1) + IntBitLen(a[Len(a)])

FZero == [sign |-> 1, m |-> << >>, e |-> 0]

\* the float of sign * q * 2^E for a q of 53 bits, or of 54 after a carry
FPack(sign, q, E) ==
    IF BitLen(q) > 53 THEN [sign |-> sign, m |-> BShr(q, 1), e |-> E + 1]
    ELSE [sign |-> sign, m |-> q, e |-> E]

\* q rounded up or not: c is -1, 0 or 1 as the bits dropped are less than,
\* equal to or more than half a unit of q; ties go to the even q
FRoundUp(q, c, sticky) ==
    IF c > 0 \/ (c = 0 /\ (sticky \/ q[1] % 2 = 1)) THEN BAdd(q, <<1>>) ELSE q

\* M rounded to its top 53 bits, q = floor(M / 2^sh)
FRoundTo(sign, M, E, sticky, sh, q) ==
    FPack(sign,
          FRoundUp(q, BCmp(BSub(M, BShl(q, sh)), BShl(<<1>>, sh - 1)), sticky),
          E + sh)

\* FRound for an M of L bits
FRoundLen(sign, M, E, sticky, L) ==
    IF L = 0 THEN FZero
    ELSE IF L <= 53
    THEN [sign |-> sign, m |-> BShl(M, 53 - L), e |-> E - (53 - L)]
    ELSE FRoundTo(sign, M, E, sticky, L - 53, BShr(M, L - 53))

\* the float nearest to sign * M * 2^E, or to a number just above it in
\* magnitude when sticky, ties to even
FRound(sign, M, E, sticky) == FRoundLen(sign, M, E, sticky, BitLen(M))

\* float(n) of an int
FromInt(n) == FRound(IF n < 0 THEN -1 ELSE 1, BFromInt(IF n < 0 THEN -n ELSE n), 0, FALSE)

FNeg(a) == IF a.m = << >> THEN a ELSE [a EXCEPT !.sign = -a.sign]

\* -1, 0 or 1 as |a| < |b|, |a| = |b| or |a| > |b|
FCmpAbs(a, b) ==
    IF a.m = << >> THEN (IF b.m = << >> THEN 0 ELSE -1)
    ELSE IF b.m = << >> THEN 1
    ELSE IF a.e < b.e THEN -1
    ELSE IF a.e > b.e THEN 1
    ELSE BCmp(a.m, b.m)

FCmp(a, b) ==
    LET sa == IF a.m = << >> THEN 0 ELSE a.sign
        sb == IF b.m = << >> THEN 0 ELSE b.sign
    IN  IF sa < sb THEN -1
        ELSE IF sa > sb THEN 1
        ELSE IF sa = 0 THEN 0
        ELSE sa * FCmpAbs(a, b)

FGeq(a, b) == FCmp(a, b) >= 0

FGt(a, b) == FCmp(a, b) > 0

FLt(a, b) == FCmp(a, b) < 0

\* the float of sa * Ma * 2^e + sb * Mb * 2^e; c compares Ma with Mb
FAddCompared(sa, Ma, sb, Mb, e, c) ==
    FRound(IF sa = sb \/ c > 0 THEN sa ELSE sb,
           IF sa = sb THEN BAdd(Ma, Mb)
           ELSE IF c > 0 THEN BSub(Ma, Mb)
           ELSE IF c < 0 THEN BSub(Mb, Ma)
           ELSE << >>,
           e, FALSE)

FAddAligned(sa, Ma, sb, Mb, e) == FAddCompared(sa, Ma, sb, Mb, e, BCmp(Ma, Mb))

\* a + b with both mantissas brought to the exponent e
FAddAt(a, b, e) ==
    FAddAligned(a.sign, BShl(a.m, a.e - e), b.sign, BShl(b.m, b.e - e), e)

FAdd(a, b) ==
    IF a.m = << >> THEN b
    ELSE IF b.m = << >> THEN a
    ELSE FAddAt(a, b, IF a.e < b.e THEN a.e ELSE b.e)

FSub(a, b) == FAdd(a, FNeg(b))

FMul(a, b) ==
    IF a.m = << >> \/ b.m = << >> THEN FZero
    ELSE FRound(a.sign * b.sign, BMul(a.m, b.m), a.e + b.e, FALSE)

\* one more bit of a quotient by D; ge tells whether s.rem >= D
DivStep(s, D, ge) ==
    [q |-> BAdd(BAdd(s.q, s.q), IF ge THEN <<1>> ELSE << >>),
     rem |-> BDouble(IF ge THEN BSub(s.rem, D) ELSE s.rem)]

\* k more bits of a quotient by D: s.q holds the bits so far and s.rem the
\* remainder that is left, s.rem < 2 * D; once nothing is left the other
\* bits are zeros
RECURSIVE DivBits(_, _, _)
DivBits(s, D, k) ==
    IF k = 0 THEN s
    ELSE IF s.rem = << >> THEN [q |-> BShl(s.q, k), rem |-> << >>]
    ELSE DivBits(DivStep(s, D, BCmp(s.rem, D) >= 0), D, k - 1)

\* the float of sign * d.q * 2^E, d.rem being what the division left
FDivRound(sign, d, E) == FRound(sign, d.q, E, d.rem # << >>)

\* a / b for b that is not zero; the quotient has 58 bits, worked out 15 at
\* a time
FDiv(a, b) ==
    IF a.m = << >> THEN FZero
    ELSE FDivRound(a.sign * b.sign,
                   DivBits(DivBits(DivBits(DivBits([q |-> << >>, rem |-> a.m],
                                                   b.m, 15), b.m, 15), b.m, 15),
                           b.m, 13),
                   a.e - b.e - 57)

(***************************************************************************)
(* The run of the script in binary64, for the sessions whose               *)
(* organizational cost and cost reduction are the only amounts that are    *)
(* not zero.  The other category amounts are the zeros of CostLocals and   *)
(* BenefitLocals, which binary64 holds exactly.                            *)
(***************************************************************************)
\* the float of a rational that a float holds exactly
FloatOf(x) == FDiv(FromInt(x[1]), FromInt(x[2]))

\* a float literal of ten * 0.1, as 0.7 or 1.3: the float nearest to it
Tenths(ten) == FDiv(FromInt(ten), FromInt(10))

\* ((a1 + a2) + a3) + ... + an
RECURSIVE FloatSum(_, _)
FloatSum(amounts, n) ==
    IF n = 1 THEN amounts[1]
    ELSE FAdd(FloatSum(amounts, n - 1), amounts[n])

\* year1_org
FloatOrgYear1(w) ==
    FromInt(w.training_cost + w.change_mgmt + w.governance_cost + w.legal_cost)

\* year n's organizational cost: year2_org = year1_org * 0.7 and
\* year3_org = year2_org * 0.8
RECURSIVE FloatOrg(_, _)
FloatOrg(w, n) ==
    IF n = 1 THEN FloatOrgYear1(w)
    ELSE FMul(FloatOrg(w, n - 1), Tenths(IF n = 2 THEN 7 ELSE 8))

\* year n's other six amounts in the order of the subtotal; c holds the
\* cost category variables of the run
CategoryAmounts(c, n) ==
    IF n = 1
    THEN <<c.year1_api_cost, c.year1_embedding, c.year1_infra, c.year1_dev,
           c.year1_data, c.year1_ops>>
    ELSE IF n = 2
    THEN <<c.year2_api_cost, c.year2_embedding, c.year2_infra, c.year2_dev,
           c.year2_data, c.year2_ops>>
    ELSE <<c.year3_api_cost, c.year3_embedding, c.year3_infra, c.year3_dev,
           c.year3_data, c.year3_ops>>

\* year n's seven amounts as floats
FloatCategories(amounts, org) ==
    [i \in 1..7 |-> IF i = 7 THEN org ELSE FloatOf(amounts[i])]

\* yearN_contingency = yearN_subtotal * (contingency_pct / 100) and
\* yearN_total = yearN_subtotal + yearN_contingency
FloatWithContingency(subtotal, contingency_pct) ==
    FAdd(subtotal, FMul(subtotal, FDiv(FromInt(contingency_pct), FromInt(100))))

FloatYearTotal(w, n) ==
    FloatWithContingency(
        FloatSum(FloatCategories(CategoryAmounts(CostLocals(w), n), FloatOrg(w, n)), 7),
        w.contingency_pct)

\* the dict stored under cost_data, of the three year totals
FloatCostDict(w, totals) ==
    [year1_total |-> totals[1],
     year2_total |-> totals[2],
     year3_total |-> totals[3],
     three_year_tco |-> FloatSum(totals, 3),
     org_name |-> w.org_name,
     industry |-> w.industry,
     use_case |-> w.use_case]

\* the year totals and the TCO of st.session_state.cost_data
FloatCostData(w) ==
    FloatCostDict(w, <<FloatYearTotal(w, 1), FloatYearTotal(w, 2), FloatYearTotal(w, 3)>>)

\* cost_reduction_year1
FloatCostReductionYear1(w) ==
    FMul(FromInt(w.customer_service_reduction + w.process_automation_value
                 + w.error_reduction_value),
         FDiv(FromInt(w.cost_reduction_confidence), FromInt(100)))

\* year n's cost reduction: cost_reduction_year2 = cost_reduction_year1 * 1.3
\* and cost_reduction_year3 = cost_reduction_year2 * 1.2
RECURSIVE FloatCostReduction(_, _)
FloatCostReduction(w, n) ==
    IF n = 1 THEN FloatCostReductionYear1(w)
    ELSE FMul(FloatCostReduction(w, n - 1), Tenths(IF n = 2 THEN 13 ELSE 12))

\* year n's productivity, revenue and strategic amounts; b holds the
\* benefit variables of the run
BenefitAmounts(b, n) ==
    IF n = 1
    THEN <<b.productivity_value_year1, b.revenue_year1, b.strategic_year1>>
    ELSE IF n = 2
    THEN <<b.productivity_value_year2, b.revenue_year2, b.strategic_year2>>
    ELSE <<b.productivity_value_year3, b.revenue_year3, b.strategic_year3>>

\* year n's four amounts as floats in the order of yearN_benefits:
\* productivity, cost reduction, revenue, strategic
FloatBenefits(amounts, cost_reduction) ==
    [i \in 1..4 |-> IF i = 2 THEN cost_reduction
                    ELSE FloatOf(amounts[IF i = 1 THEN 1 ELSE i - 1])]

FloatYearBenefits(w, n) ==
    FloatSum(FloatBenefits(BenefitAmounts(BenefitLocals(w), n), FloatCostReduction(w, n)), 4)

\* [monthly] * 12
Twelve(monthly) == [i \in 1..12 |-> monthly]

\* [y/12] * 12
TwelveMonths(y) == Twelve(FDiv(y, FromInt(12)))

\* [y1/12] * 12 + [y2/12] * 12 + [y3/12] * 12, indexed from 1
FloatMonthly(yearly) ==
    TwelveMonths(yearly[1]) \o TwelveMonths(yearly[2]) \o TwelveMonths(yearly[3])

\* the loop "for month in range(36)" from index month on
RECURSIVE FloatPaybackLoop(_, _, _, _, _)
FloatPaybackLoop(month, cumulative_benefit, cumulative_cost, monthly_benefits, monthly_costs) ==
    IF month >= 36 THEN 0
    ELSE LET cb == FAdd(cumulative_benefit, monthly_benefits[month + 1])
             cc == FAdd(cumulative_cost, monthly_costs[month + 1])
         IN  IF FGeq(cb, cc) THEN month + 1
             ELSE FloatPaybackLoop(month + 1, cb, cc, monthly_benefits, monthly_costs)

\* the dict stored under roi_data, of the yearly benefits, their total, the
\* TCO and the month the loop found (0 when it found none)
FloatRoiDict(yearly, total, tco, found) ==
    [year1_benefits |-> yearly[1],
     year2_benefits |-> yearly[2],
     year3_benefits |-> yearly[3],
     three_year_benefits |-> total,
     net_benefit |-> FSub(total, tco),
     roi_percentage |->
        IF FGt(tco, FZero)
        THEN FMul(FDiv(FSub(total, tco), tco), FromInt(100))
        ELSE FZero,
     payback_months |-> IF found = 0 THEN PyStr("36+") ELSE PyInt(found)]

FloatRoiOf(yearly, cd) ==
    FloatRoiDict(yearly, FloatSum(yearly, 3), cd.three_year_tco,
                 FloatPaybackLoop(0, FZero, FZero, FloatMonthly(yearly),
                                  FloatMonthly(<<cd.year1_total, cd.year2_total,
                                                 cd.year3_total>>)))

\* st.session_state.roi_data
FloatRoiData(w, cd) ==
    FloatRoiOf(<<FloatYearBenefits(w, 1), FloatYearBenefits(w, 2),
                 FloatYearBenefits(w, 3)>>, cd)

\* the inputs changed in the sessions run in binary64
FloatVaried ==
    [training_cost |-> {0, 96500, 193000, 289500, 386000},
     customer_service_reduction |-> {0, 56500, 113000, 129950, 226000, 259900},
     contingency_pct |-> {0, 15},
     cost_reduction_confidence |-> {60, 100}]

\* the session after the first run, its cost_data and roi_data in binary64
FloatInit ==
    \E r \in {Run(StartWidgets, TRUE)} : \E cd \in {FloatCostData(StartWidgets)} :
        /\ widgets = StartWidgets
        /\ cost_data = cd
        /\ roi_data = FloatRoiData(StartWidgets, cd)
        /\ locals = r.locals
        /\ scenario_results = r.scenario_results
        /\ exception = r.exception
        /\ calculation_done = r.calculation_done
        /\ scenarios = << >>
        /\ current_scenario_name = "Default Scenario"
        /\ json_file = << >>
        /\ import_result = << >>
        /\ session_state = ScriptKeys(<< >>)
        /\ returned = << >>

\* the user changes one of the inputs; the script reruns
FloatChange ==
    \E k \in DOMAIN FloatVaried : \E v \in FloatVaried[k] :
        /\ v # widgets[k]
        /\ widgets' = [widgets EXCEPT ![k] = v]
        /\ \E r \in {Run([widgets EXCEPT ![k] = v], calculation_done)} :
           \E cd \in {FloatCostData([widgets EXCEPT ![k] = v])} :
               /\ cost_data' = cd
               /\ roi_data' = FloatRoiData([widgets EXCEPT ![k] = v], cd)
               /\ locals' = r.locals
               /\ scenario_results' = r.scenario_results
               /\ exception' = r.exception
               /\ calculation_done' = r.calculation_done
        /\ session_state' = ScriptKeys(session_state)
        /\ UNCHANGED manager_vars

FloatNext == FloatChange

FloatSpec == FloatInit /\ [][FloatNext]_vars

(***************************************************************************)
(* Properties                                                              *)
(***************************************************************************)
\* the sum of the first m monthly increments of the yearly totals y1, y2, y3:
\* year_total/12 of year 1 for months 1-12, of year 2 for 13-24, of year 3
\* for 25-36
CumulativeAt(y1, y2, y3, m) ==
    IF m <= 12 THEN RMul(R(m), RDiv(y1, R(12)))
    ELSE IF m <= 24 THEN RAdd(y1, RMul(R(m - 12), RDiv(y2, R(12))))
    ELSE RAdd(RAdd(y1, y2), RMul(R(m - 24), RDiv(y3, R(12))))

CumulativeBenefit(m) ==
    CumulativeAt(roi_data.year1_benefits, roi_data.year2_benefits, roi_data.year3_benefits, m)

CumulativeCost(m) ==
    CumulativeAt(cost_data.year1_total, cost_data.year2_total, cost_data.year3_total, m)

\* C1: when payback_months is a month m, cumulative benefit >= cumulative
\* cost at month m and cumulative benefit < cumulative cost at every month
\* before m, the cumulative sums being those of year_total/12 per month.
C1_PaybackIsFirstMonth ==
    roi_data.payback_months.type = "int" =>
        LET m == roi_data.payback_months.int
        IN  /\ m \in 1..36
            /\ RGeq(CumulativeBenefit(m), CumulativeCost(m))
            /\ \A k \in 1..(m - 1) : RLt(CumulativeBenefit(k), CumulativeCost(k))

\* C1 witness: the scan crossed a year boundary before it found the month
C1_Witness ==
    /\ roi_data.payback_months.type = "int"
    /\ roi_data.payback_months.int > 12
    /\ roi_data.payback_months.int < 36

\* C2: payback_months is an int in 1..36 or the str "36+", and it is "36+"
\* exactly when cumulative benefit < cumulative cost at each of the 36 months.
C2_PaybackShape ==
    LET p == roi_data.payback_months
    IN  /\ \/ p.type = "int" /\ p.int \in 1..36
           \/ p = PyStr("36+")
        /\ p = PyStr("36+") <=>
               \A m \in 1..36 : RLt(CumulativeBenefit(m), CumulativeCost(m))

\* C2 witness: benefits are positive and the horizon ends without payback
C2_Witness ==
    /\ roi_data.payback_months = PyStr("36+")
    /\ RGt(roi_data.year1_benefits, RZero)

\* C3: net_benefit is three-year benefits minus three-year TCO;
\* roi_percentage is (net_benefit / TCO) x 100 when TCO > 0 and 0 when TCO is
\* 0; TCO 3,000,000 with benefits 4,500,000 gives 1,500,000 and 50.
C3_NetBenefitAndRoi ==
    LET tco == cost_data.three_year_tco
    IN  /\ RAdd(roi_data.net_benefit, tco) = roi_data.three_year_benefits
        /\ RGt(tco, RZero) =>
               RMul(roi_data.roi_percentage, tco) = RMul(roi_data.net_benefit, R(100))
        /\ tco = RZero => roi_data.roi_percentage = RZero
        /\ net_benefit(R(4500000), R(3000000)) = R(1500000)
        /\ roi_percentage(R(4500000), R(3000000)) = R(50)

\* C3 witness: a positive TCO and benefits that differ from it
C3_Witness ==
    /\ RGt(cost_data.three_year_tco, RZero)
    /\ RGt(roi_data.three_year_benefits, RZero)
    /\ roi_data.net_benefit # RZero

\* the ROI Aggregator formula, as the spec states it
SpecRoi(benefits, tco) ==
    IF RGt(tco, RZero) THEN RMul(RDiv(RSub(benefits, tco), tco), R(100)) ELSE RZero

\* C4: every run's sensitivity analysis completes, with net benefit m x B - C
\* and ROI ((m x B - C) / C) x 100 for C > 0 and 0 for C = 0, for m = 0.7,
\* 1.0, 1.3, and its base case equals the stored net_benefit and
\* roi_percentage.
C4_SensitivityTotal ==
    LET B == roi_data.three_year_benefits
        C == cost_data.three_year_tco
    IN  /\ exception = "none"
        /\ Len(scenario_results) = 3
        /\ \A i \in 1..3 :
              LET m == benefit_scenarios[i].multiplier
              IN  /\ scenario_results[i].NetBenefit = RSub(RMul(m, B), C)
                  /\ scenario_results[i].ROI = SpecRoi(RMul(m, B), C)
        /\ scenario_results[2].NetBenefit = roi_data.net_benefit
        /\ scenario_results[2].ROI = roi_data.roi_percentage

\* every cost category amount of year 1 is zero in the last run
AllCostsZero ==
    \A f \in {"year1_api_cost", "year1_embedding", "year1_infra", "year1_dev",
              "year1_data", "year1_ops", "year1_org"} : locals.cost[f] = RZero

\* some benefit category of year 1 is positive in the last run
SomeBenefitPositive ==
    \E f \in {"productivity_value_year1", "cost_reduction_year1", "revenue_year1",
              "strategic_year1"} : RGt(locals.benefit[f], RZero)

\* C5: with every cost category and the contingency zero, TCO is 0,
\* roi_percentage is 0 and payback_months is 1 if some benefit category is
\* positive.
C5_ZeroCostEdge ==
    (AllCostsZero /\ widgets.contingency_pct = 0) =>
        /\ cost_data.three_year_tco = RZero
        /\ roi_data.roi_percentage = RZero
        /\ SomeBenefitPositive => roi_data.payback_months = PyInt(1)

\* C5 witness: zero costs, zero contingency, a positive benefit
C5_Witness ==
    /\ AllCostsZero
    /\ widgets.contingency_pct = 0
    /\ SomeBenefitPositive
    /\ roi_data.payback_months = PyInt(1)

AllTotalsZero ==
    /\ cost_data.year1_total = RZero
    /\ cost_data.year2_total = RZero
    /\ cost_data.year3_total = RZero
    /\ roi_data.year1_benefits = RZero
    /\ roi_data.year2_benefits = RZero
    /\ roi_data.year3_benefits = RZero

\* C6: with all yearly cost totals and benefit totals zero, payback_months is
\* 1 (the tie counts as paid back), net_benefit is 0 and roi_percentage is 0.
C6_ZeroTie ==
    AllTotalsZero =>
        /\ roi_data.payback_months = PyInt(1)
        /\ roi_data.net_benefit = RZero
        /\ roi_data.roi_percentage = RZero

\* C6 witness: a rerun after a widget change leaves all totals zero
C6_Witness ==
    /\ AllTotalsZero
    /\ widgets # StartWidgets
    /\ roi_data.payback_months.type = "int"

\* cumulative benefit is below cumulative cost at the end of years 1, 2, 3
BelowAtYearEnds ==
    /\ RLt(roi_data.year1_benefits, cost_data.year1_total)
    /\ RLt(RAdd(roi_data.year1_benefits, roi_data.year2_benefits),
           RAdd(cost_data.year1_total, cost_data.year2_total))
    /\ RLt(roi_data.three_year_benefits, cost_data.three_year_tco)

C8_OrgDecay ==
    LET c == locals.cost
    IN  /\ c.year1_org = R(widgets.training_cost + widgets.change_mgmt
                             + widgets.governance_cost + widgets.legal_cost)
        /\ RMul(R(10), c.year2_org) = RMul(R(7), c.year1_org)
        /\ RMul(R(10), c.year3_org) = RMul(R(8), c.year2_org)
        /\ RMul(R(100), c.year3_org) = RMul(R(56), c.year1_org)

\* C8 witness: a positive organizational cost under a growth rate other than
\* the starting one
C8_Witness ==
    /\ RGt(locals.cost.year1_org, RZero)
    /\ widgets.growth_rate # StartWidgets.growth_rate

\* organizational is the only non-zero cost category
OrgOnly ==
    /\ RGt(locals.cost.year1_org, RZero)
    /\ \A f \in {"year1_api_cost", "year1_embedding", "year1_infra", "year1_dev",
                 "year1_data", "year1_ops"} : locals.cost[f] = RZero

\* C9 as stated: with organizational amount X the only non-zero category,
\* year2_total is X x 0.7 and year3_total is X x 0.7 x 0.8 for every
\* contingency percentage.
C9_Original ==
    OrgOnly =>
        /\ cost_data.year2_total = RMul(locals.cost.year1_org, <<7, 10>>)
        /\ cost_data.year3_total = RMul(RMul(locals.cost.year1_org, <<7, 10>>), <<8, 10>>)

\* C9 amended: with organizational amount X the only non-zero category,
\* year2_total is X x 0.7 x (1 + contingency_pct/100) and year3_total is
\* X x 0.7 x 0.8 x (1 + contingency_pct/100); they are X x 0.7 and
\* X x 0.7 x 0.8 when contingency_pct is 0.
C9_OrgOnlyTotals ==
    OrgOnly =>
        LET X == locals.cost.year1_org
            k == <<100 + widgets.contingency_pct, 100>>
        IN  /\ cost_data.year2_total = RMul(RMul(X, <<7, 10>>), k)
            /\ cost_data.year3_total = RMul(RMul(RMul(X, <<7, 10>>), <<8, 10>>), k)
            /\ widgets.contingency_pct = 0 =>
                  /\ cost_data.year2_total = RMul(X, <<7, 10>>)
                  /\ cost_data.year3_total = RMul(X, <<56, 100>>)

\* C9 witness: organizational cost only, with a positive contingency
C9_Witness ==
    /\ OrgOnly
    /\ widgets.contingency_pct > 0
    /\ cost_data.year2_total # RMul(locals.cost.year1_org, <<7, 10>>)

\* year n = year 1 x (1 + pct/100)^(n-1) for n = 2, 3
Compounds(y1, y2, y3, pct) ==
    /\ y2 = RMul(y1, <<100 + pct, 100>>)
    /\ y3 = RMul(y1, <<(100 + pct) * (100 + pct), 10000>>)

\* C10: API and embedding cost compound at the usage growth rate,
\* infrastructure at 15%, development at 5%, data management at 10% and
\* operations at 8% a year.
C10_CategoryCompounding ==
    LET c == locals.cost
    IN  /\ Compounds(c.year1_api_cost, c.year2_api_cost, c.year3_api_cost,
                     widgets.growth_rate)
        /\ Compounds(c.year1_embedding, c.year2_embedding, c.year3_embedding,
                     widgets.growth_rate)
        /\ Compounds(c.year1_infra, c.year2_infra, c.year3_infra, 15)
        /\ Compounds(c.year1_dev, c.year2_dev, c.year3_dev, 5)
        /\ Compounds(c.year1_data, c.year2_data, c.year3_data, 10)
        /\ Compounds(c.year1_ops, c.year2_ops, c.year3_ops, 8)

\* C10 witness: a positive infrastructure cost next to an API cost that
\* grows at a non-zero usage growth rate
C10_Witness ==
    /\ RGt(locals.cost.year1_infra, RZero)
    /\ RGt(locals.cost.year1_api_cost, RZero)
    /\ widgets.growth_rate > 0


\* the sum of a sequence of amounts
RECURSIVE RSum(_)
RSum(amounts) ==
    IF amounts = << >> THEN RZero ELSE RAdd(amounts[1], RSum(Tail(amounts)))

\* the seven cost category variables of year n
CategoryFields(n) ==
    IF n = 1 THEN <<"year1_api_cost", "year1_embedding", "year1_infra", "year1_dev",
                    "year1_data", "year1_ops", "year1_org">>
    ELSE IF n = 2 THEN <<"year2_api_cost", "year2_embedding", "year2_infra", "year2_dev",
                         "year2_data", "year2_ops", "year2_org">>
    ELSE <<"year3_api_cost", "year3_embedding", "year3_infra", "year3_dev",
           "year3_data", "year3_ops", "year3_org">>

\* the sum of the cost categories of year n in the last run
CategorySubtotal(n) == RSum([i \in 1..7 |-> locals.cost[CategoryFields(n)[i]]])

\* the stored cost total of year n
StoredYearTotal(n) ==
    IF n = 1 THEN cost_data.year1_total
    ELSE IF n = 2 THEN cost_data.year2_total
    ELSE cost_data.year3_total

\* year n's total is year n's own category subtotal plus that subtotal x
\* contingency_pct/100
YearTotalsFromOwnSubtotal ==
    \A n \in 1..3 :
        LET subtotal == CategorySubtotal(n)
        IN  StoredYearTotal(n)
                = RAdd(subtotal, RMul(subtotal, <<widgets.contingency_pct, 100>>))

\* the year-1 total of categories summing to 750000 at 15% contingency
ScenarioA_year1_total == year1_total(R(750000), year1_contingency(R(750000), 15))

\* C11 as stated: year n's total is year n's own category subtotal plus that
\* subtotal x contingency_pct/100, and categories summing to 750000 with 15%
\* contingency give a year-1 total of 865000.
C11_Original ==
    /\ YearTotalsFromOwnSubtotal
    /\ ScenarioA_year1_total = R(865000)

\* C11 amended: year n's total is year n's own category subtotal plus that
\* subtotal x contingency_pct/100, the contingency being recomputed on each
\* year's subtotal; categories summing to 750000 with 15% contingency give a
\* year-1 total of 862500.
C11_YearTotals ==
    /\ YearTotalsFromOwnSubtotal
    /\ ScenarioA_year1_total = R(862500)

\* C11 witness: a positive contingency on subtotals that differ from year 1
\* to year 2 and from year 2 to year 3
C11_Witness ==
    /\ widgets.contingency_pct > 0
    /\ RGt(CategorySubtotal(1), RZero)
    /\ CategorySubtotal(2) # CategorySubtotal(1)
    /\ CategorySubtotal(3) # CategorySubtotal(2)

\* C12: the three_year_tco of cost_data is year1_total + year2_total +
\* year3_total, and each of the three includes its year's contingency, so it
\* is the sum of the three category subtotals x (1 + contingency_pct/100).
C12_TcoIsSumOfTotals ==
    /\ cost_data.three_year_tco
          = RAdd(RAdd(cost_data.year1_total, cost_data.year2_total), cost_data.year3_total)
    /\ cost_data.three_year_tco
          = RMul(RSum([n \in 1..3 |-> CategorySubtotal(n)]),
                 <<100 + widgets.contingency_pct, 100>>)

\* C12 witness: three positive yearly totals, no two equal, under a positive
\* contingency
C12_Witness ==
    /\ widgets.contingency_pct > 0
    /\ RGt(cost_data.year1_total, RZero)
    /\ cost_data.year2_total # cost_data.year1_total
    /\ cost_data.year3_total # cost_data.year2_total
    /\ cost_data.year3_total # cost_data.year1_total

\* the widgets of a productivity-only estimate: 5 hours saved per user per
\* week, 100 affected users, hourly rate 75, confidence 70%
ScenarioB_widgets ==
    [StartWidgets EXCEPT !.time_saved_per_user = R(5), !.affected_users = 100,
                         !.hourly_rate = 75, !.productivity_pct = 70]

\* C13: the productivity benefit of year 1 is hours saved per user per week
\* x affected users x 52 x hourly rate x confidence/100, of year 2 is year 1
\* x 1.20 and of year 3 is year 2 x 1.15; 5 hours, rate 75, 100 users and
\* confidence 70% give 1365000, 1638000 and 1883700, which sum to 4886700.
C13_Productivity ==
    LET b == locals.benefit
        hours == widgets.time_saved_per_user
        base == RMul(hours, R(widgets.affected_users * 52 * widgets.hourly_rate))
        e == BenefitLocals(ScenarioB_widgets)
    IN  /\ b.productivity_value_year1 = RMul(base, <<widgets.productivity_pct, 100>>)
        /\ b.productivity_value_year2 = RMul(b.productivity_value_year1, <<120, 100>>)
        /\ b.productivity_value_year3 = RMul(b.productivity_value_year2, <<115, 100>>)
        /\ e.productivity_value_year1 = R(1365000)
        /\ e.productivity_value_year2 = R(1638000)
        /\ e.productivity_value_year3 = R(1883700)
        /\ RSum(<<e.productivity_value_year1, e.productivity_value_year2,
                  e.productivity_value_year3>>) = R(4886700)

\* C13 witness: a positive productivity benefit discounted by a confidence
\* strictly between 0 and 100
C13_Witness ==
    /\ RGt(locals.benefit.productivity_value_year1, RZero)
    /\ widgets.productivity_pct > 0
    /\ widgets.productivity_pct < 100
    /\ RGt(locals.benefit.productivity_value_year3, locals.benefit.productivity_value_year2)

\* year 1 is items x confidence/100, year 2 is year 1 x m2/100, year 3 is
\* year 2 x m3/100, and all three are 0 when confidence is 0
DiscountedThenMultiplied(items, confidence, y1, y2, y3, m2, m3) ==
    /\ y1 = RMul(R(items), <<confidence, 100>>)
    /\ y2 = RMul(y1, <<m2, 100>>)
    /\ y3 = RMul(y2, <<m3, 100>>)
    /\ confidence = 0 => y1 = RZero /\ y2 = RZero /\ y3 = RZero

\* C14: for cost reduction, revenue and strategic benefits, year 1 is the sum
\* of the category's sub-items x the category's confidence/100, year 2 is
\* year 1 x 1.30, 1.50, 1.20 and year 3 is year 2 x 1.20, 1.40, 1.15
\* respectively; at confidence 0 the category is 0 in all three years.
C14_ConfidenceAndMultipliers ==
    LET b == locals.benefit
        w == widgets
    IN  /\ DiscountedThenMultiplied(
              w.customer_service_reduction + w.process_automation_value
                + w.error_reduction_value,
              w.cost_reduction_confidence,
              b.cost_reduction_year1, b.cost_reduction_year2, b.cost_reduction_year3,
              130, 120)
        /\ DiscountedThenMultiplied(
              w.new_revenue + w.customer_retention, w.revenue_confidence,
              b.revenue_year1, b.revenue_year2, b.revenue_year3, 150, 140)
        /\ DiscountedThenMultiplied(
              w.competitive_advantage + w.innovation_value, w.strategic_confidence,
              b.strategic_year1, b.strategic_year2, b.strategic_year3, 120, 115)

\* C14 witness: a positive cost-reduction sub-item at confidence 0
C14_Witness ==
    /\ widgets.customer_service_reduction > 0
    /\ widgets.cost_reduction_confidence = 0
    /\ locals.benefit.cost_reduction_year3 = RZero

\* the year-1, year-2 and year-3 values of each benefit category in the
\* last run
CategoryYears ==
    LET b == locals.benefit
    IN  [productivity |-> <<b.productivity_value_year1, b.productivity_value_year2,
                            b.productivity_value_year3>>,
         cost_reduction |-> <<b.cost_reduction_year1, b.cost_reduction_year2,
                              b.cost_reduction_year3>>,
         revenue |-> <<b.revenue_year1, b.revenue_year2, b.revenue_year3>>,
         strategic |-> <<b.strategic_year1, b.strategic_year2, b.strategic_year3>>]

\* the year-1, year-2 and year-3 values of each category from a year-1
\* amount a
CategoryYearsFrom(a) ==
    [productivity |-> <<a, productivity_value_year2(a),
                        productivity_value_year3(productivity_value_year2(a))>>,
     cost_reduction |-> <<a, cost_reduction_year2(a),
                          cost_reduction_year3(cost_reduction_year2(a))>>,
     revenue |-> <<a, revenue_year2(a), revenue_year3(revenue_year2(a))>>,
     strategic |-> <<a, strategic_year2(a), strategic_year3(strategic_year2(a))>>]

BenefitCategories == {"productivity", "cost_reduction", "revenue", "strategic"}

\* year-1 amounts the categories are compared at
EqualYearOneAmounts == {RMul(R(a), <<1, 2>>) : a \in Amounts(10000) \ {0}}

\* in years, fast's year-2 and year-3 values are at least slow's
AtLeast(years, fast, slow) ==
    /\ RGeq(years[fast][2], years[slow][2])
    /\ RGeq(years[fast][3], years[slow][3])

\* fast compounds at least as fast as slow: from equal positive year-1
\* amounts, in the last run and from each amount of EqualYearOneAmounts
CompoundsAtLeast(fast, slow) ==
    /\ (/\ CategoryYears[fast][1] = CategoryYears[slow][1]
        /\ RGt(CategoryYears[fast][1], RZero))
          => AtLeast(CategoryYears, fast, slow)
    /\ \A a \in EqualYearOneAmounts : AtLeast(CategoryYearsFrom(a), fast, slow)

\* strategic and productivity are at most every other category
SlowestAreStrategicAndProductivity ==
    \A slow \in {"strategic", "productivity"} :
        \A other \in BenefitCategories \ {slow} : CompoundsAtLeast(other, slow)

\* C15 as stated: from equal positive year-1 amounts, cost reduction's year-2
\* and year-3 values are at least those of every other category, and the
\* strategic and productivity values are at most those of every other
\* category.
C15_Original ==
    /\ \A other \in BenefitCategories \ {"cost_reduction"} :
           CompoundsAtLeast("cost_reduction", other)
    /\ SlowestAreStrategicAndProductivity

\* C15 amended: from equal positive year-1 amounts, revenue's year-2 and
\* year-3 values are at least those of every other category, cost
\* reduction's are at least those of strategic and productivity and below
\* revenue's, and the strategic and productivity values are at most those of
\* every other category.
C15_RevenueFastest ==
    /\ \A other \in BenefitCategories \ {"revenue"} : CompoundsAtLeast("revenue", other)
    /\ \A a \in EqualYearOneAmounts :
           /\ RLt(CategoryYearsFrom(a).cost_reduction[2], CategoryYearsFrom(a).revenue[2])
           /\ RLt(CategoryYearsFrom(a).cost_reduction[3], CategoryYearsFrom(a).revenue[3])
    /\ SlowestAreStrategicAndProductivity

\* C15 witness: revenue and strategic benefits with equal positive year-1
\* amounts, revenue ahead in year 2 and in year 3
C15_Witness ==
    /\ CategoryYears.revenue[1] = CategoryYears.strategic[1]
    /\ RGt(CategoryYears.revenue[1], RZero)
    /\ RGt(CategoryYears.revenue[2], CategoryYears.strategic[2])
    /\ RGt(CategoryYears.revenue[3], CategoryYears.strategic[3])

\* the sum of the four benefit categories' values of year n in the last run
CategoryBenefits(n) ==
    RSum(<<CategoryYears.productivity[n], CategoryYears.cost_reduction[n],
           CategoryYears.revenue[n], CategoryYears.strategic[n]>>)

\* C16: the benefit total of each year is the sum of the productivity, cost
\* reduction, revenue and strategic values of that year, and
\* three_year_benefits is the sum of the three yearly benefit totals.
C16_BenefitTotals ==
    /\ roi_data.year1_benefits = CategoryBenefits(1)
    /\ roi_data.year2_benefits = CategoryBenefits(2)
    /\ roi_data.year3_benefits = CategoryBenefits(3)
    /\ roi_data.three_year_benefits
          = RSum(<<roi_data.year1_benefits, roi_data.year2_benefits,
                   roi_data.year3_benefits>>)

\* C16 witness: a positive strategic benefit next to a positive benefit of
\* another category
C16_Witness ==
    /\ RGt(CategoryYears.strategic[1], RZero)
    /\ \E other \in BenefitCategories \ {"strategic"} :
           RGt(CategoryYears[other][1], RZero)
    /\ RGt(roi_data.year3_benefits, roi_data.year2_benefits)

\* the year-1 amounts of the seven cost categories
YearOneCategories == {CategoryFields(1)[i] : i \in 1..7}

\* this step raises the year-1 amount of category f and keeps every other
\* year-1 amount, the usage growth rate and the contingency percentage
RaisesOnly(f) ==
    /\ RGt(locals'.cost[f], locals.cost[f])
    /\ \A g \in YearOneCategories \ {f} : locals'.cost[g] = locals.cost[g]
    /\ widgets'.growth_rate = widgets.growth_rate
    /\ widgets'.contingency_pct = widgets.contingency_pct

\* C17: a run that follows a rise of the year-1 amount of one cost category
\* (API, embedding, infrastructure, development, data management, operations
\* or organizational), everything else unchanged, stores a three_year_tco
\* that is not below the one of the run before.
C17_Monotone ==
    [][\A f \in YearOneCategories :
           RaisesOnly(f) => RGeq(cost_data'.three_year_tco, cost_data.three_year_tco)]_vars

\* C17 witness: the state after the operations amount was raised from one
\* step to two next to a positive contingency, the three_year_tco above the
\* one the lower amount gives
C17_Witness ==
    /\ widgets.incident_mgmt = 25000
    /\ widgets.contingency_pct > 0
    /\ LET lower == [widgets EXCEPT !.incident_mgmt = 12500]
       IN  RGt(cost_data.three_year_tco,
               CostData(lower, CostLocals(lower)).three_year_tco)

ContingencyInputs == {-5, 0, 9, 10, 15, 50, 51, 100}

\* the warning of the contingency check for pct
ContingencyWarning(pct) ==
    IF pct < 10 THEN <<ContingencyLow>>
    ELSE IF pct > 50 THEN <<ContingencyHigh>>
    ELSE << >>

\* C20: for the inputs of the session with any contingency percentage,
\* validate_cost_inputs collects the errors it collects at 15%, so the
\* contingency adds none, and the warnings at 15% followed by a contingency
\* warning exactly when the percentage is below 10 or above 50; the cost
\* computation gives each year's total, subtotal x (1 + pct/100), for that
\* percentage, and the last run has stored the totals for the slider's value.
C20_ContingencyWarnsOnly ==
    /\ \A pct \in ContingencyInputs :
           LET at == validate_cost_inputs(
                        [cost_inputs(widgets) EXCEPT !.contingency_pct = R(pct)])
               at15 == validate_cost_inputs(
                          [cost_inputs(widgets) EXCEPT !.contingency_pct = R(15)])
               cd == CostData([widgets EXCEPT !.contingency_pct = pct], locals.cost)
           IN  /\ at.errors = at15.errors
               /\ at.warnings = at15.warnings \o ContingencyWarning(pct)
               /\ cd.year1_total = RMul(CategorySubtotal(1), <<100 + pct, 100>>)
               /\ cd.year2_total = RMul(CategorySubtotal(2), <<100 + pct, 100>>)
               /\ cd.year3_total = RMul(CategorySubtotal(3), <<100 + pct, 100>>)
    /\ validate_cost_inputs(cost_inputs(widgets)).warnings
          = validate_cost_inputs(
                [cost_inputs(widgets) EXCEPT !.contingency_pct = R(15)]).warnings
              \o ContingencyWarning(widgets.contingency_pct)
    /\ \A n \in 1..3 :
           StoredYearTotal(n)
              = RMul(CategorySubtotal(n), <<100 + widgets.contingency_pct, 100>>)

\* C20 witness: a run with the contingency slider at 0, below the range, and
\* positive costs: the validation warns and the totals are stored
C20_Witness ==
    /\ widgets.contingency_pct = 0
    /\ RGt(cost_data.year1_total, RZero)
    /\ RGt(cost_data.year3_total, RZero)
    /\ ContingencyLow \in
          {validate_cost_inputs(cost_inputs(widgets)).warnings[i] :
              i \in 1..Len(validate_cost_inputs(cost_inputs(widgets)).warnings)}

(***************************************************************************)
(* The consumers of roi_data['payback_months'].  A Python value that may   *)
(* be a float, an int or a str is a tagged record; a consumer returns      *)
(* raised = TRUE when one of its comparisons raises TypeError.             *)
(***************************************************************************)
PyFloat(x) == [type |-> "float", float |-> x]

\* value < n and value > n of Python for an int n: defined for the numbers,
\* TypeError for a str
PyOrderable(value) == value.type # "str"

PyLess(value, n) ==
    IF value.type = "int" THEN value.int < n ELSE RLt(value.float, R(n))

PyGreater(value, n) ==
    IF value.type = "int" THEN value.int > n ELSE RGt(value.float, R(n))

\* the 'roi_metrics' of INDUSTRY_BENCHMARKS; an industry outside the table
\* has none
INDUSTRY_BENCHMARKS ==
    [i \in {"Financial Services", "Healthcare", "Technology", "Retail",
            "Manufacturing", "Professional Services"} |->
        CASE i = "Financial Services" ->
                [typical_roi |-> <<120, 200>>, payback_months |-> <<18, 30>>]
          [] i = "Healthcare" ->
                [typical_roi |-> <<100, 180>>, payback_months |-> <<24, 40>>]
          [] i = "Technology" ->
                [typical_roi |-> <<150, 250>>, payback_months |-> <<12, 24>>]
          [] i = "Retail" ->
                [typical_roi |-> <<130, 220>>, payback_months |-> <<15, 28>>]
          [] i = "Manufacturing" ->
                [typical_roi |-> <<110, 190>>, payback_months |-> <<20, 36>>]
          [] i = "Professional Services" ->
                [typical_roi |-> <<140, 230>>, payback_months |-> <<14, 26>>]]

\* GENERAL_BENCHMARKS['maturity_impact']: the typical_roi of a maturity level
maturity_impact ==
    [m \in {"Exploring", "Pilot", "Production", "Mature"} |->
        CASE m = "Exploring" -> [typical_roi |-> <<50, 120>>]
          [] m = "Pilot" -> [typical_roi |-> <<100, 180>>]
          [] m = "Production" -> [typical_roi |-> <<130, 220>>]
          [] m = "Mature" -> [typical_roi |-> <<150, 280>>]]

\* compare_to_benchmark: the status of the returned tuple
compare_to_benchmark(user_value, benchmark_range, higher_is_better) ==
    LET min_val == benchmark_range[1]
        max_val == benchmark_range[2]
    IN  IF ~PyOrderable(user_value)
        THEN [raised |-> TRUE, status |-> ""]
        ELSE IF PyLess(user_value, min_val)
        THEN [raised |-> FALSE,
              status |-> IF higher_is_better THEN "below" ELSE "above"]
        ELSE IF PyGreater(user_value, max_val)
        THEN [raised |-> FALSE,
              status |-> IF higher_is_better THEN "above" ELSE "below"]
        ELSE [raised |-> FALSE, status |-> "within"]

\* analyze_roi_vs_benchmark: the analysis as the sequence of the
\* [metric, status, source] of its entries
analyze_roi_vs_benchmark(rd, industry, maturity) ==
    LET has_industry == industry \in DOMAIN INDUSTRY_BENCHMARKS
        has_maturity == maturity \in DOMAIN maturity_impact
        user_roi == PyFloat(rd.roi_percentage)
        user_payback == rd.payback_months
        roi_cmp == compare_to_benchmark(user_roi,
                      INDUSTRY_BENCHMARKS[industry].typical_roi, TRUE)
        payback_cmp == compare_to_benchmark(user_payback,
                          INDUSTRY_BENCHMARKS[industry].payback_months, FALSE)
        maturity_cmp == compare_to_benchmark(user_roi,
                           maturity_impact[maturity].typical_roi, TRUE)
        industry_part ==
            IF has_industry
            THEN << [metric |-> "ROI", status |-> roi_cmp.status,
                     source |-> "Industry Average"],
                    [metric |-> "Payback Period", status |-> payback_cmp.status,
                     source |-> "Industry Average"] >>
            ELSE << >>
        maturity_part ==
            IF has_maturity
            THEN << [metric |-> "ROI", status |-> maturity_cmp.status,
                     source |-> "Maturity Average"] >>
            ELSE << >>
    IN  IF has_industry /\ (roi_cmp.raised \/ payback_cmp.raised)
        THEN [raised |-> TRUE, analysis |-> << >>]
        ELSE [raised |-> FALSE, analysis |-> industry_part \o maturity_part]

\* validate_roi_projections: the warnings, each named by its subject; the
\* confidence keys are not in roi_data, so their .get is the default 0
validate_roi_projections(rd) ==
    LET roi_pct == rd.roi_percentage
        months == rd.payback_months
        roi_warning ==
            IF RLt(roi_pct, RZero) THEN << "Negative ROI" >>
            ELSE IF RGt(roi_pct, R(500)) THEN << "ROI is extremely high" >>
            ELSE << >>
        payback_warning ==
            IF months.int > 0
            THEN IF months.int < 3 THEN << "Payback period is unusually short" >>
                 ELSE IF months.int > 60 THEN << "Payback period is very long" >>
                 ELSE << >>
            ELSE << >>
        confidence_warning == << "Low confidence" >>
    IN  IF ~PyOrderable(months)
        THEN [raised |-> TRUE, errors |-> << >>, warnings |-> << >>]
        ELSE [raised |-> FALSE, errors |-> << >>,
              warnings |-> roi_warning \o payback_warning \o confidence_warning]

\* get_comparison_summary_table: one row per compared scenario, in the order
\* the scenarios were added
get_comparison_summary_table(comparison_scenarios) ==
    [i \in 1..Len(comparison_scenarios) |->
        [Scenario |-> comparison_scenarios[i].name,
         ROI |-> comparison_scenarios[i].roi_data.roi_percentage,
         Payback |-> comparison_scenarios[i].roi_data.payback_months]]

\* Series.idxmin of the 'Payback (months)' column: the first row holding the
\* minimum of a numeric column
PaybackIdxMin(df) ==
    CHOOSE i \in 1..Len(df) :
        /\ \A j \in 1..Len(df) : df[i].Payback.int <= df[j].Payback.int
        /\ \A j \in 1..(i - 1) : df[j].Payback.int > df[i].Payback.int

\* Series.idxmax of the 'ROI %' column
RoiIdxMax(df) ==
    CHOOSE i \in 1..Len(df) :
        /\ \A j \in 1..Len(df) : RGeq(df[i].ROI, df[j].ROI)
        /\ \A j \in 1..(i - 1) : RLt(df[j].ROI, df[i].ROI)

\* get_winner_analysis: None for an empty comparison; a column holding a str
\* has dtype object, whose idxmin raises TypeError
get_winner_analysis(comparison_scenarios) ==
    LET df == get_comparison_summary_table(comparison_scenarios)
    IN  IF Len(df) = 0
        THEN [raised |-> FALSE, none |-> TRUE, highest_roi |-> "",
              fastest_payback |-> ""]
        ELSE IF \E i \in 1..Len(df) : ~PyOrderable(df[i].Payback)
        THEN [raised |-> TRUE, none |-> FALSE, highest_roi |-> "",
              fastest_payback |-> ""]
        ELSE [raised |-> FALSE, none |-> FALSE,
              highest_roi |-> df[RoiIdxMax(df)].Scenario,
              fastest_payback |-> df[PaybackIdxMin(df)].Scenario]

\* the session's scenario compared with the scenario of the start inputs,
\* which pays back in month 1
ComparedWithStart ==
    << [name |-> "Start", roi_data |-> Run(StartWidgets, TRUE).roi_data],
       [name |-> "Current", roi_data |-> roi_data] >>

\* C21: for every payback_months the engine stores, an integer in 1..36 or
\* the "36+" sentinel, validate_roi_projections, analyze_roi_vs_benchmark and
\* get_winner_analysis complete without error, and get_winner_analysis does
\* not name a "36+" scenario as fastest payback when another compared scenario
\* paid back within 36 months.
C21_PaybackConsumers ==
    /\ ~validate_roi_projections(roi_data).raised
    /\ ~analyze_roi_vs_benchmark(roi_data, widgets.industry, "Pilot").raised
    /\ ~get_winner_analysis(ComparedWithStart).raised
    /\ get_winner_analysis(ComparedWithStart).fastest_payback = "Start"

C23_PaybackAgreesWithNetBenefit ==
    LET months == roi_data.payback_months
    IN  /\ FGeq(roi_data.net_benefit, FZero)
              => months.type = "int" /\ months.int \in 1..36
        /\ months = PyStr("36+")
              => /\ FLt(roi_data.net_benefit, FZero)
                 /\ FGt(cost_data.three_year_tco, FZero)
                       => FLt(roi_data.roi_percentage, FZero)

\* C24: the seven entries of cost_data.year1_breakdown (API Costs = API +
\* embedding, Infrastructure, Development, Data Management, Operations,
\* Organizational, Contingency) sum to cost_data.year1_total.
C24_BreakdownComplete ==
    LET bd == cost_data.year1_breakdown
    IN  /\ DOMAIN bd = {"api_costs", "infrastructure", "development",
                        "data_management", "operations", "organizational",
                        "contingency"}
        /\ bd.api_costs = RAdd(locals.cost.year1_api_cost, locals.cost.year1_embedding)
        /\ RSum(<<bd.api_costs, bd.infrastructure, bd.development,
                  bd.data_management, bd.operations, bd.organizational,
                  bd.contingency>>) = cost_data.year1_total

\* C24 witness: a run with an embedding cost, another category and a
\* contingency, all positive
C24_Witness ==
    /\ RGt(locals.cost.year1_embedding, RZero)
    /\ RGt(cost_data.year1_breakdown.contingency, RZero)
    /\ \E f \in {"infrastructure", "development", "data_management",
                 "operations", "organizational"} :
           RGt(cost_data.year1_breakdown[f], RZero)

\* C25: after any sequence of input changes and reruns, the stored roi_data
\* and cost_data are mutually consistent: net_benefit is three_year_benefits
\* minus cost_data.three_year_tco and roi_percentage is the ROI formula of
\* those two totals.
C25_RoiMatchesCostData ==
    /\ roi_data.net_benefit
          = RSub(roi_data.three_year_benefits, cost_data.three_year_tco)
    /\ roi_data.roi_percentage
          = SpecRoi(roi_data.three_year_benefits, cost_data.three_year_tco)

\* C25 witness: a session after a change of a cost input and of a benefit
\* input, with positive totals and a ROI that is not zero
C25_Witness ==
    /\ \E k \in CostWidgets : widgets[k] # StartWidgets[k]
    /\ \E k \in BenefitWidgets : widgets[k] # StartWidgets[k]
    /\ RGt(cost_data.three_year_tco, RZero)
    /\ RGt(roi_data.three_year_benefits, RZero)
    /\ roi_data.roi_percentage # RZero

\* the names a scenario can be saved under
SavedNames == ScenarioNames \ {""}

\* the profile and input values get_current_data reads from the session
SessionValues ==
    [org_profile |-> get_current_data("").org_profile,
     inputs |-> get_current_data("").inputs]

\* the step saves the scenario n
SaveOf(n) == \E now \in Dates : Save(n, now)

Returned(call, name, value) ==
    /\ returned # << >>
    /\ returned[1] = [call |-> call, name |-> name, value |-> value]

\* C28: load_scenario and delete_scenario with a name that is not saved
\* return False and leave the scenarios map, cost_data, roi_data and
\* current_scenario_name as they were; delete_scenario with a saved name
\* returns True and removes that entry and no other.
C28_UnknownNamesChangeNothing ==
    [][\A n \in ScenarioNames :
          /\ (n \notin DOMAIN scenarios /\ (Load(n) \/ Delete(n)))
                => /\ returned'[1].value = FALSE
                   /\ scenarios' = scenarios
                   /\ cost_data' = cost_data
                   /\ roi_data' = roi_data
                   /\ current_scenario_name' = current_scenario_name
          /\ (n \in DOMAIN scenarios /\ Delete(n))
                => /\ returned'[1].value = TRUE
                   /\ DOMAIN scenarios' = DOMAIN scenarios \ {n}
                   /\ \A other \in DOMAIN scenarios' :
                          scenarios'[other] = scenarios[other]
                   /\ UNCHANGED <<cost_data, roi_data, current_scenario_name>>
      ]_vars

\* C28 witness: with one scenario left saved, a call with a name that is not
\* saved has returned False
C28_Witness ==
    /\ \E n \in ScenarioNames :
          /\ n \notin DOMAIN scenarios
          /\ Returned("load_scenario", n, FALSE) \/ Returned("delete_scenario", n, FALSE)
    /\ DOMAIN scenarios # {}

\* a second C28 case: a saved scenario was deleted and another one is left
C28_DeletedOne ==
    /\ \E n \in SavedNames :
          /\ n \notin DOMAIN scenarios
          /\ Returned("delete_scenario", n, TRUE)
    /\ DOMAIN scenarios # {}

\* C27: auto_save stores the current data under "_autosave_" + the current
\* scenario name and leaves current_scenario_name unchanged, so that no entry
\* of the scenarios map has a name of two "_autosave_" prefixes.
C27_AutoSaveKeepsName ==
    [][AutoSave
          => /\ ("_autosave_" \o current_scenario_name) \in DOMAIN scenarios'
             /\ scenarios'["_autosave_" \o current_scenario_name].cost_data = cost_data
             /\ current_scenario_name' = current_scenario_name
             /\ DOMAIN scenarios' \cap AutoSaveNames(2) = {}
      ]_vars

\* C29: import_scenario_json always returns a (success, message) pair; for a
\* text that is not JSON, or JSON without a 'metadata' key, success is False
\* and the scenarios map is unchanged, as after every failure; on success
\* one entry of the scenarios map is added or replaced and no other changes;
\* cost_data, roi_data and current_scenario_name are never changed.
C29_ImportReportsFailure ==
    [][ImportScenario
          => LET text == json_file[1]
                 result == import_result'[1]
             IN  /\ import_result' # << >>
                 /\ result.success \in BOOLEAN
                 /\ result.message # << >>
                 /\ (text = NotJson \/ (~IsToken(text) /\ "metadata" \notin DOMAIN text))
                       => ~result.success
                 /\ ~result.success => scenarios' = scenarios
                 /\ result.success
                       => \E name \in DOMAIN scenarios' :
                             /\ DOMAIN scenarios' = DOMAIN scenarios \cup {name}
                             /\ \A other \in DOMAIN scenarios \ {name} :
                                    scenarios'[other] = scenarios[other]
                 /\ UNCHANGED <<cost_data, roi_data, current_scenario_name>>
      ]_vars

\* C29 witness: after a scenario was imported, the import of a text that is
\* not JSON has failed
C29_Witness ==
    /\ json_file = <<NotJson>>
    /\ import_result = <<[success |-> FALSE, message |-> <<"Invalid JSON file: ">>]>>
    /\ DOMAIN scenarios # {}

\* a second C29 case: the import of an object without metadata has failed
C29_MissingMetadata ==
    /\ json_file # << >>
    /\ ~IsToken(json_file[1])
    /\ "metadata" \notin DOMAIN json_file[1]
    /\ import_result
          = <<[success |-> FALSE,
               message |-> <<"Invalid file format: missing metadata">>]>>
    /\ DOMAIN scenarios # {}

\* the ROI inputs of the session as the dict validate_roi_inputs reads
RoiInputs(w) ==
    [time_saved_per_user |-> w.time_saved_per_user,
     hourly_rate |-> R(w.hourly_rate),
     productivity_pct |-> R(w.productivity_pct),
     cost_reduction_confidence |-> R(w.cost_reduction_confidence),
     revenue_confidence |-> R(w.revenue_confidence),
     strategic_confidence |-> R(w.strategic_confidence)]

\* the session's inputs with an organization name, hours saved, an hourly
\* rate and a productivity confidence inside and outside their ranges
ValidationCases ==
    {[cost |-> [cost_inputs(widgets) EXCEPT !.org_name = name],
      roi |-> [RoiInputs(widgets) EXCEPT !.time_saved_per_user = R(hours),
                                         !.hourly_rate = R(rate),
                                         !.productivity_pct = R(pct)]] :
        name \in {"", "Acme"}, hours \in {-1, 0, 41}, rate \in {0, 10, 75, 501},
        pct \in {-5, 50, 101}}

\* C30: validate_before_calculation returns is_valid = True exactly when the
\* errors of validate_cost_inputs followed by those of validate_roi_inputs
\* are empty; the warnings, however many, play no part.
C30_ValidIffNoErrors ==
    \A case \in ValidationCases \cup {[cost |-> cost_inputs(widgets),
                                       roi |-> RoiInputs(widgets)]} :
        LET result == validate_before_calculation(case.cost, case.roi)
            cost == validate_cost_inputs(case.cost)
            roi == validate_roi_inputs(case.roi)
        IN  /\ result.errors = cost.errors \o roi.errors
            /\ result.warnings = cost.warnings \o roi.warnings
            /\ result.is_valid <=> (cost.errors = << >> /\ roi.errors = << >>)

\* C30 witness: the session's inputs, with an organization name, have three
\* warnings or more and no error, and are valid; with hours below zero they
\* are not
C30_Witness ==
    /\ widgets.contingency_pct # StartWidgets.contingency_pct
    /\ \E case \in ValidationCases :
          LET result == validate_before_calculation(case.cost, case.roi)
          IN  result.is_valid /\ Len(result.warnings) >= 3
    /\ \E case \in ValidationCases :
          LET result == validate_before_calculation(case.cost, case.roi)
          IN  ~result.is_valid /\ result.errors # << >>

====
